---- MODULE Spec2Model ----
(***************************************************************************)
(* Model of the account hierarchy backend: the Account Store and the User  *)
(* Store (TypeORM repositories of Geo_Account and Geo_User), the cached    *)
(* per-connection actor of server.ts, and the operations of                *)
(* AccountController.  Every controller operation is one action; the       *)
(* store call at which the database may throw is an input of the action.   *)
(***************************************************************************)
EXTENDS Integers, FiniteSets, Sequences, TLC

(* ---------------------------- bounds ----------------------------------- *)
\* number of account ids (uuids) that can ever be generated
MaxAccounts == 3
\* the last account id that calls made one after the other generate; calls
\* whose steps interleave generate the ids up to MaxAccounts
MaxSerialAccounts == 2
\* number of user ids that can ever be generated
MaxUsers == 3
\* number of ids a createAccount request lists in adminIds and userIds together
MaxListed == 2

AccountIds == 1..MaxAccounts
UserIds == 1..MaxUsers
\* an account id / user id that no row carries (request input only)
MissingAccountId == MaxAccounts + 1
MissingUserId == MaxUsers + 1
\* target ids a request can name
RequestAccountIds == AccountIds \cup {MissingAccountId}
RequestUserIds == UserIds \cup {MissingUserId}
\* connections (clientIds) of server.ts
Conns == {"c1"}
\* invocations of the async message listener that can be in flight together
Handlers == {"h1", "h2"}
\* number of member ids of the external system
MaxMembers == 2
MemberIds == 1..MaxMembers

(* ---------------------------- values ----------------------------------- *)
\* SQL NULL / JavaScript null or undefined
NULL == 0
\* the random uuid initializeDatabase stores as primaryAdminId of a main
\* account: it is the id of no user
GhostUserId == -1
NoAccount == [type |-> "absent"]
NoUser == [role |-> "absent"]
NoClientUser == [id |-> NULL, role |-> "none", adminType |-> "none", accountId |-> NULL,
                 accountType |-> "null"]

\* the frame of a handler that is not running
IdleCall == [pc |-> "idle", conn |-> "none", user |-> NoClientUser, data |-> NULL,
             id |-> NULL, rows |-> NULL, todo |-> {}, reported |-> {}, thrown |-> 0]

\* tokens of messages: none, one that jwt.verify rejects, or the token
\* issued for user id
NoToken == [kind |-> "none", id |-> NULL]
BadToken == [kind |-> "bad", id |-> NULL]
\* a socket that was never opened
NoLink == [state |-> "absent", path |-> "none", action |-> "none", token |-> NoToken,
           sent |-> 0, ran |-> "none", by |-> NULL]

\* the sockets of the model, the clientIds their upgrade requests carry
\* and the channels they subscribe to
Sockets == {"s1", "s2"}
ClientIds == {"k1", "k2"}
Channels == {"news"}
\* milliseconds between two runs of the pingInterval callback, and from the
\* connection to the run of the timeout callback
PING_INTERVAL == 20000
CONNECTION_TIMEOUT == 60000
\* the runs of the pingInterval callback up to the run of the timeout
WindowTicks == CONNECTION_TIMEOUT \div PING_INTERVAL
\* a clientId without entry in clients
NoEntry == [ws |-> "none", pingInterval |-> "none", user |-> FALSE]
\* a socket no client has opened
NoSocket == [state |-> "absent", clientId |-> "none", path |-> "none",
             isAlive |-> FALSE, pingInterval |-> "none", timeout |-> "none",
             pinged |-> FALSE, age |-> 0, silent |-> 0, replied |-> FALSE,
             responsive |-> TRUE, authenticated |-> FALSE, closedBy |-> "none",
             closedFor |-> "none"]

hierarchy == <<"main", "institutional", "regional", "district", "branch", "department">>
\* account types a createAccount request chooses from
CreateTypes == {"institutional", "regional"}
\* free text of requests; sanitizeHtml strips executable markup
CreateNames == {"acme"}
EditNames == {"", "zeta<script>x</script>"}

VARIABLES
    accounts,       \* Account Store: id -> row or NoAccount
    nextAccountId,  \* ids generated so far + 1 (a uuid is never reused)
    users,          \* User Store: id -> row or NoUser
    client,         \* clients map of server.ts: conn -> cached client.user
    calls,          \* message handlers suspended at an await: handler -> frame
    memberUsers,    \* rows of the User Store with id user-<memberId>
    link,           \* conn -> socket state and what its last message led to
    sockets,        \* socket -> the closure of its connection handler
    clients,        \* clients map of server.ts: clientId -> entry or NoEntry
    channels,       \* channel -> the sockets subscribed to it
    walk,           \* the ancestor walk in progress: its loop variable and lookups
    fetch           \* the external data and the progress of the fetch loops

\* no ancestor walk is in progress
NoWalk == [op |-> "none", cur |-> NULL, lookups |-> 0, result |-> "none"]

\* no fetch of external data is in progress
NoFetch == [stage |-> "idle", adminList |-> <<>>, schedules |-> <<>>, page |-> 1,
            requested |-> <<>>, admins |-> <<>>, i |-> 0, inFlight |-> {},
            asked |-> <<>>, attendanceUsers |-> <<>>, phoneUserMap |-> <<>>]

\* the variables of the heartbeat, of the client registry, of the ancestor
\* walk taken lookup by lookup and of the fetch loops taken request by
\* request
sockVars == <<sockets, clients, channels, walk, fetch>>

vars == <<accounts, nextAccountId, users, client, calls, memberUsers, link,
          sockets, clients, channels, walk, fetch>>

\* no socket is connected and no walk is in progress
InitSockets ==
    /\ sockets = [s \in Sockets |-> NoSocket]
    /\ clients = [k \in ClientIds |-> NoEntry]
    /\ channels = [ch \in Channels |-> {}]
    /\ walk = NoWalk
    /\ fetch = NoFetch

(* ------------------------- store queries ------------------------------- *)
AccountExists(a) == a \in AccountIds /\ accounts[a] # NoAccount
UserExists(u) == u \in UserIds /\ users[u] # NoUser
ExistingAccounts == {a \in AccountIds : accounts[a] # NoAccount}
ExistingUsers == {u \in UserIds : users[u] # NoUser}
\* account.users relation: the users whose accountId column is a
UsersOf(a) == {u \in ExistingUsers : users[u].accountId = a}
\* userRepository.findOne({where: {email}}) finds a row of the User Store
EmailStored(e) == \E u \in ExistingUsers : users[u].email = e
\* a User Store without the unique index on email
UniqueViolation_noIndex(usr, mem, e) == FALSE

\* the unique index on the email column rejects a new row with email e
UniqueViolation(usr, mem, e) ==
    \/ \E u \in UserIds : usr[u] # NoUser /\ usr[u].email = e
    \/ \E m \in MemberIds : mem[m] # NoUser /\ mem[m].email = e

\* the next id a newly inserted user gets
NextUserId == Cardinality(ExistingUsers) + 1

sanitizeHtml(s) == IF s = "zeta<script>x</script>" THEN "zeta" ELSE s

(* ------------------------- cached actor -------------------------------- *)
\* the Geo_User entity authenticate() loads with relations ["account"]:
\* accountType is "null" when the accountId column names no account row
LoadUser(u) ==
    [id |-> u,
     role |-> users[u].role,
     adminType |-> users[u].adminType,
     accountId |-> users[u].accountId,
     accountType |-> IF AccountExists(users[u].accountId)
                     THEN accounts[users[u].accountId].type
                     ELSE "null"]

(* ------------------------- store faults -------------------------------- *)
\* At most one store call of an operation throws.  at names the call, n is
\* the index of the findOne inside checkPermission / getMainAccount, done is
\* the set of rows a loop saved before its save threw.
NoFail == [at |-> "none", n |-> 0, done |-> {}]
Fault(at) == [at |-> at, n |-> 0, done |-> {}]
LookupFault(at, n) == [at |-> at, n |-> n, done |-> {}]
LoopFault(at, done) == [at |-> at, n |-> 0, done |-> done]
ProperSubsets(S) == {D \in SUBSET S : D # S}
PermFault(fail) == IF fail.at = "perm" THEN fail.n ELSE 0
MainFault(fail) == IF fail.at = "main" THEN fail.n ELSE 0

(* ------------------------- checkPermission ----------------------------- *)
\* the while loop of checkPermission; cur is the account the loop visits,
\* n the index of the next findOne, pf the index of the findOne that throws
RECURSIVE ancestryWalk(_, _, _, _)
ancestryWalk(user, cur, n, pf) ==
    IF cur = user.accountId \/ accounts[cur].primaryAdminId = user.id THEN "true"
    ELSE IF accounts[cur].parentId = NULL THEN "false"
    ELSE IF pf = n THEN "throw"
    ELSE IF ~AccountExists(accounts[cur].parentId) THEN "false"
    ELSE ancestryWalk(user, accounts[cur].parentId, n + 1, pf)

\* checkPermissionBody without the unlimited main admin shortcut
checkPermissionBody_noShortcut(user, targetAccountId, pf) ==
    IF user.role # "admin" THEN "false"
    ELSE IF pf = 1 THEN "throw"
    ELSE IF ~AccountExists(targetAccountId) THEN "false"
    ELSE IF user.adminType = "unlimited" /\ user.accountType = "null" THEN "throw"
    ELSE ancestryWalk(user, targetAccountId, 2, pf)

\* checkPermissionBody without the role check
checkPermissionBody_noRoleCheck(user, targetAccountId, pf) ==
    IF pf = 1 THEN "throw"
    ELSE IF ~AccountExists(targetAccountId) THEN "false"
    ELSE IF user.adminType = "unlimited" /\ user.accountType = "null" THEN "throw"
    ELSE IF user.adminType = "unlimited" /\ user.accountType = "main" THEN "true"
    ELSE ancestryWalk(user, targetAccountId, 2, pf)

\* the try block of checkPermission: "true", "false" or "throw"
checkPermissionBody(user, targetAccountId, pf) ==
    IF user.role # "admin" THEN "false"
    ELSE IF pf = 1 THEN "throw"
    ELSE IF ~AccountExists(targetAccountId) THEN "false"
    ELSE IF user.adminType = "unlimited" /\ user.accountType = "null" THEN "throw"
    ELSE IF user.adminType = "unlimited" /\ user.accountType = "main" THEN "true"
    ELSE ancestryWalk(user, targetAccountId, 2, pf)

\* checkPermission whose catch block grants
checkPermission_failOpen(user, targetAccountId, pf) ==
    checkPermissionBody(user, targetAccountId, pf) # "false"

\* checkPermission: the catch block turns every throw into false
checkPermission(user, targetAccountId, pf) ==
    checkPermissionBody(user, targetAccountId, pf) = "true"

\* number of findOne calls a fault-free checkPermission makes
RECURSIVE ancestryLookups(_, _, _)
ancestryLookups(user, cur, n) ==
    IF cur = user.accountId \/ accounts[cur].primaryAdminId = user.id THEN n
    ELSE IF accounts[cur].parentId = NULL THEN n
    ELSE IF ~AccountExists(accounts[cur].parentId) THEN n + 1
    ELSE ancestryLookups(user, accounts[cur].parentId, n + 1)

permissionLookups(user, targetAccountId) ==
    IF user.role # "admin" THEN 0
    ELSE IF ~AccountExists(targetAccountId) THEN 1
    ELSE IF user.adminType = "unlimited" /\ user.accountType \in {"null", "main"} THEN 1
    ELSE ancestryLookups(user, targetAccountId, 1)

(* ------------------------- getMainAccount ------------------------------ *)
FindAccount(a) == IF AccountExists(a) THEN a ELSE NULL

\* the while loop of getMainAccount; cur is the last findOne result
RECURSIVE mainWalk(_, _, _)
mainWalk(cur, n, mf) ==
    IF cur = NULL THEN NULL
    ELSE IF accounts[cur].parentId = NULL THEN cur
    ELSE IF mf = n THEN NULL
    ELSE mainWalk(FindAccount(accounts[cur].parentId), n + 1, mf)

\* getMainAccount: the id of the root of accountId's chain, or NULL
getMainAccount(accountId, mf) ==
    IF mf = 1 THEN NULL ELSE mainWalk(FindAccount(accountId), 2, mf)

RECURSIVE mainWalkLookups(_, _)
mainWalkLookups(cur, n) ==
    IF cur = NULL THEN n
    ELSE IF accounts[cur].parentId = NULL THEN n
    ELSE mainWalkLookups(FindAccount(accounts[cur].parentId), n + 1)

\* number of findOne calls a fault-free getMainAccount makes
mainLookups(accountId) == mainWalkLookups(FindAccount(accountId), 1)

(* ------------------------- operation results --------------------------- *)
\* What one controller call leaves behind: the two stores, the id counter,
\* the checkPermission result ("none" when the operation makes no check) and
\* the status of the error it raised (0: none; 500: a store call threw).
Result(acc, usr, next, perm, thrown) ==
    [accounts |-> acc, users |-> usr, next |-> next, perm |-> perm, thrown |-> thrown]
\* the operation raised before its first write
Raised(perm, thrown) == Result(accounts, users, nextAccountId, perm, thrown)

\* the envelope the catch block sends is ApiError(500, message) whatever was
\* raised; a success sends the status of its ApiResponse
EnvelopeStatus(op, thrown) ==
    IF thrown # 0 THEN 500
    ELSE IF op \in {"create", "createUser"} THEN 201
    ELSE 200

\* the message of the envelope a catch block sends: an ApiError is no
\* instance of Error, so the text of the operation stands in for its own
\* message; a failure of the store is an Error and its message is sent
EnvelopeMessage(op, thrown) ==
    IF thrown = 500 THEN "raised" ELSE "default"

\* the controller call ended with result r
Apply(r) ==
    /\ accounts' = r.accounts
    /\ users' = r.users
    /\ nextAccountId' = r.next

Finish(r) ==
    /\ Apply(r)
    /\ UNCHANGED <<client, calls, sockVars, memberUsers, link>>

(* ------------------------- editAccount --------------------------------- *)
\* editAccountResult that saves the name before it looks the new primary
\* admin up
editAccountResult_savesFirst(user, data, fail) ==
    LET granted == checkPermission(user, data.accountId, PermFault(fail))
        stored == accounts[data.accountId]
        named == IF data.name # "" THEN [stored EXCEPT !.name = sanitizeHtml(data.name)]
                 ELSE stored
        adminOk == UserExists(data.primaryAdminId)
                   /\ users[data.primaryAdminId].role = "admin"
        edited == IF data.primaryAdminId # NULL
                  THEN [named EXCEPT !.primaryAdminId = data.primaryAdminId]
                  ELSE named
    IN  IF ~granted THEN Raised("denied", 403)
        ELSE IF fail.at = "findAccount" THEN Raised("granted", 500)
        ELSE IF ~AccountExists(data.accountId) THEN Raised("granted", 404)
        ELSE IF data.primaryAdminId # NULL /\ ~adminOk
             THEN Result([accounts EXCEPT ![data.accountId] = named], users,
                         nextAccountId, "granted", 404)
        ELSE Result([accounts EXCEPT ![data.accountId] = edited], users,
                    nextAccountId, "granted", 0)

\* data: [accountId, name, primaryAdminId]; "" and NULL are fields not given
editAccountResult(user, data, fail) ==
    LET granted == checkPermission(user, data.accountId, PermFault(fail))
        stored == accounts[data.accountId]
        named == IF data.name # "" THEN [stored EXCEPT !.name = sanitizeHtml(data.name)]
                 ELSE stored
        adminOk == UserExists(data.primaryAdminId)
                   /\ users[data.primaryAdminId].role = "admin"
        edited == IF data.primaryAdminId # NULL
                  THEN [named EXCEPT !.primaryAdminId = data.primaryAdminId]
                  ELSE named
    IN  IF ~granted THEN Raised("denied", 403)
        ELSE IF fail.at = "findAccount" THEN Raised("granted", 500)
        ELSE IF ~AccountExists(data.accountId) THEN Raised("granted", 404)
        ELSE IF data.primaryAdminId # NULL /\ fail.at = "findAdmin" THEN Raised("granted", 500)
        ELSE IF data.primaryAdminId # NULL /\ ~adminOk THEN Raised("granted", 404)
        ELSE IF fail.at = "save" THEN Raised("granted", 500)
        ELSE Result([accounts EXCEPT ![data.accountId] = edited], users,
                    nextAccountId, "granted", 0)

editAccount(c, data, fail) ==
    /\ client[c] # NoClientUser
    /\ Finish(editAccountResult(client[c], data, fail))

(* ------------------------- deleteAccount ------------------------------- *)
\* the users of S get accountId a
Reassign(usr, S, a) ==
    [u \in UserIds |-> IF u \in S THEN [usr[u] EXCEPT !.accountId = a] ELSE usr[u]]

\* the account the users of a deleted account move to, or NULL
deleteParentAccount(user, accountId, fail) ==
    IF accounts[accountId].parentId # NULL
    THEN FindAccount(accounts[accountId].parentId)
    ELSE getMainAccount(user.accountId, MainFault(fail))

\* deleteAccount without the permission check
deleteAccountResult_unchecked(user, accountId, fail) ==
    LET parentAccount == deleteParentAccount(user, accountId, fail)
        moved == IF parentAccount # NULL
                 THEN Reassign(users, UsersOf(accountId), parentAccount)
                 ELSE users
    IN  IF ~AccountExists(accountId) THEN Raised("granted", 404)
        ELSE Result([accounts EXCEPT ![accountId] = NoAccount], moved,
                    nextAccountId, "granted", 0)

deleteAccountResult(user, accountId, fail) ==
    LET granted == checkPermission(user, accountId, PermFault(fail))
        parentAccount == deleteParentAccount(user, accountId, fail)
        members == UsersOf(accountId)
        moved == IF parentAccount # NULL THEN Reassign(users, members, parentAccount)
                 ELSE users
    IN  IF ~granted THEN Raised("denied", 403)
        ELSE IF fail.at = "findAccount" THEN Raised("granted", 500)
        ELSE IF ~AccountExists(accountId) THEN Raised("granted", 404)
        ELSE IF accounts[accountId].parentId # NULL /\ fail.at = "findParent"
             THEN Raised("granted", 500)
        ELSE IF parentAccount # NULL /\ fail.at = "saveUser"
                /\ fail.done \in ProperSubsets(members)
             THEN Result(accounts, Reassign(users, fail.done, parentAccount),
                         nextAccountId, "granted", 500)
        ELSE IF fail.at = "delete" THEN Result(accounts, moved, nextAccountId, "granted", 500)
        ELSE Result([accounts EXCEPT ![accountId] = NoAccount], moved,
                    nextAccountId, "granted", 0)

deleteAccount(c, accountId, fail) ==
    /\ client[c] # NoClientUser
    /\ fail.at = "saveUser" => fail.done \in ProperSubsets(UsersOf(accountId))
    /\ Finish(deleteAccountResult(client[c], accountId, fail))

(* ------------------------- assignUsers --------------------------------- *)
\* usersToAssign without the accountId condition
usersToAssign_anyAccount(user, userIds, mainAccountId) == userIds \cap ExistingUsers

\* userRepository.find({id: In(userIds), accountId: In([mainAccountId, user.accountId])})
usersToAssign(user, userIds, mainAccountId) ==
    {u \in userIds \cap ExistingUsers :
        users[u].accountId \in {mainAccountId, user.accountId}}

assignUsersResult(user, data, fail) ==
    LET granted == checkPermission(user, data.accountId, PermFault(fail))
        mainAccountId == IF user.accountType = "main" THEN user.accountId
                         ELSE getMainAccount(user.accountId, MainFault(fail))
        found == usersToAssign(user, data.userIds, mainAccountId)
    IN  IF ~granted THEN Raised("denied", 403)
        ELSE IF fail.at = "findAccount" THEN Raised("granted", 500)
        ELSE IF ~AccountExists(data.accountId) THEN Raised("granted", 404)
        ELSE IF user.accountType = "null" THEN Raised("granted", 500)
        ELSE IF mainAccountId = NULL THEN Raised("granted", 404)
        ELSE IF fail.at = "findUsers" THEN Raised("granted", 500)
        ELSE IF fail.at = "saveUser" /\ fail.done \in ProperSubsets(found)
             THEN Result(accounts, Reassign(users, fail.done, data.accountId),
                         nextAccountId, "granted", 500)
        ELSE Result(accounts, Reassign(users, found, data.accountId),
                    nextAccountId, "granted", 0)

assignUsers(c, data, fail) ==
    /\ client[c] # NoClientUser
    /\ fail.at = "saveUser" =>
          /\ checkPermission(client[c], data.accountId, 0)
          /\ client[c].accountType # "null"
          /\ LET mainAccountId == IF client[c].accountType = "main"
                                  THEN client[c].accountId
                                  ELSE getMainAccount(client[c].accountId, 0)
             IN  /\ mainAccountId # NULL
                 /\ fail.done \in ProperSubsets(
                        usersToAssign(client[c], data.userIds, mainAccountId))
    /\ Finish(assignUsersResult(client[c], data, fail))

(* ------------------- assignUsers, compiled build ----------------------- *)
\* hierarchy.indexOf(type): the position from 0, -1 for no position
indexOf(type) ==
    IF \E i \in 1..Len(hierarchy) : hierarchy[i] = type
    THEN (CHOOSE i \in 1..Len(hierarchy) : hierarchy[i] = type) - 1
    ELSE 0 - 1

\* checkPermission of the compiled build: it has no try block, so "throw"
\* reaches the caller
checkPermissionDist(user, targetAccountId, pf) ==
    IF user.role # "admin" THEN "false"
    ELSE IF pf = 1 THEN "throw"
    ELSE IF ~AccountExists(targetAccountId) THEN "false"
    ELSE IF user.adminType = "unlimited" /\ user.accountType = "null" THEN "throw"
    ELSE IF user.adminType = "unlimited" /\ user.accountType = "main" THEN "true"
    ELSE IF accounts[targetAccountId].primaryAdminId # user.id
            /\ user.accountId # targetAccountId THEN "false"
    ELSE IF user.adminType = "limited" THEN "false"
    ELSE IF user.accountType = "null" THEN "throw"
    ELSE IF indexOf(user.accountType) <= indexOf(accounts[targetAccountId].type)
            \/ accounts[targetAccountId].parentId = user.accountId THEN "true"
    ELSE "false"

\* the rows of findByIds(userIds) the loop does not skip; mainAccountId is
\* NULL when getMainAccount found no account
distUsersToAssign(user, userIds, mainAccountId) ==
    {u \in userIds \cap ExistingUsers :
        users[u].accountId = mainAccountId \/ users[u].accountId = user.accountId}

assignUsersDistResult(user, data, fail) ==
    LET granted == checkPermissionDist(user, data.accountId, PermFault(fail))
        mainAccountId == IF user.accountType = "main" THEN user.accountId
                         ELSE getMainAccount(user.accountId, 0)
        found == distUsersToAssign(user, data.userIds, mainAccountId)
    IN  IF granted = "throw" THEN Raised("none", 500)
        ELSE IF granted = "false" THEN Raised("denied", 403)
        ELSE IF fail.at = "findAccount" THEN Raised("granted", 500)
        ELSE IF ~AccountExists(data.accountId) THEN Raised("granted", 404)
        ELSE IF user.accountType = "null" THEN Raised("granted", 500)
        ELSE IF fail.at \in {"main", "findUsers"} THEN Raised("granted", 500)
        ELSE IF fail.at = "saveUser" /\ fail.done \in ProperSubsets(found)
             THEN Result(accounts, Reassign(users, fail.done, data.accountId),
                         nextAccountId, "granted", 500)
        ELSE Result(accounts, Reassign(users, found, data.accountId),
                    nextAccountId, "granted", 0)

assignUsersDist(c, data, fail) ==
    /\ client[c] # NoClientUser
    /\ fail.at = "saveUser" =>
          /\ checkPermissionDist(client[c], data.accountId, 0) = "true"
          /\ client[c].accountType # "null"
          /\ LET mainAccountId == IF client[c].accountType = "main"
                                  THEN client[c].accountId
                                  ELSE getMainAccount(client[c].accountId, 0)
             IN  fail.done \in ProperSubsets(
                        distUsersToAssign(client[c], data.userIds, mainAccountId))
    /\ Finish(assignUsersDistResult(client[c], data, fail))


(* ------------------------- getAccounts --------------------------------- *)
\* hierarchy.slice(start): the types from position start on; a negative
\* start counts from the end
slice(start) ==
    LET from == IF start < 0 THEN Len(hierarchy) + start ELSE start
    IN  {hierarchy[i] : i \in (from + 1)..Len(hierarchy)}

\* getAccountsResult whose query has the type condition only
getAccountsResult_typesOnly(user) ==
    IF user.accountType = "null" THEN [thrown |-> 500, found |-> {}]
    ELSE IF user.accountType = "main" /\ user.adminType = "unlimited"
         THEN [thrown |-> 0, found |-> ExistingAccounts]
    ELSE [thrown |-> 0,
          found |-> {a \in ExistingAccounts :
                        accounts[a].type \in slice(indexOf(user.accountType))}]

\* the ids of the accounts getAccounts sends; reading user.account.type of
\* a user without account throws
getAccountsResult(user) ==
    IF user.accountType = "null" THEN [thrown |-> 500, found |-> {}]
    ELSE IF user.accountType = "main" /\ user.adminType = "unlimited"
         THEN [thrown |-> 0, found |-> ExistingAccounts]
    ELSE [thrown |-> 0,
          found |-> {a \in ExistingAccounts :
                        \/ accounts[a].type \in slice(indexOf(user.accountType))
                        \/ a = user.accountId
                        \/ accounts[a].primaryAdminId = user.id}]

(* ------------------------- createAccount ------------------------------- *)
\* the primary admin lookup without the accountId condition
primaryAdminFound_anyAccount(user, primaryAdminId) ==
    /\ UserExists(primaryAdminId)
    /\ users[primaryAdminId].role = "admin"

\* userRepository.findOne({id: primaryAdminId, role: "admin", accountId: user.accountId})
primaryAdminFound(user, primaryAdminId) ==
    /\ UserExists(primaryAdminId)
    /\ users[primaryAdminId].role = "admin"
    /\ users[primaryAdminId].accountId = user.accountId

\* userRepository.find({id: In(ids), role, accountId: user.accountId}) on store usr
findInOrganization(usr, user, ids, role) ==
    {u \in ids \cap ExistingUsers : usr[u].role = role /\ usr[u].accountId = user.accountId}

\* the primary admin joins account id with the requested adminType
assignPrimaryAdmin(usr, primaryAdminId, id, adminType) ==
    [usr EXCEPT ![primaryAdminId].accountId = id, ![primaryAdminId].adminType = adminType]

\* the admins join account id and keep an unset adminType
assignAdmins_noDefault(usr, S, primaryAdminId, id) ==
    [u \in UserIds |->
        IF u \in S /\ u # primaryAdminId THEN [usr[u] EXCEPT !.accountId = id] ELSE usr[u]]

\* the admins of S other than the primary admin join account id
assignAdmins(usr, S, primaryAdminId, id) ==
    [u \in UserIds |->
        IF u \in S /\ u # primaryAdminId
        THEN [usr[u] EXCEPT !.accountId = id,
                            !.adminType = IF @ = "none" THEN "limited" ELSE @]
        ELSE usr[u]]

\* data: [name, type, parentId, primaryAdminId, adminType, adminIds, userIds]
createAccountResult(user, data, fail) ==
    LET id == nextAccountId
        newAccount == [type |-> data.type, parentId |-> data.parentId,
                       primaryAdminId |-> data.primaryAdminId,
                       name |-> sanitizeHtml(data.name)]
        saved == [accounts EXCEPT ![id] = newAccount]
        withPrimary == assignPrimaryAdmin(users, data.primaryAdminId, id, data.adminType)
        admins == findInOrganization(withPrimary, user, data.adminIds, "admin")
        withAdmins == assignAdmins(withPrimary, admins, data.primaryAdminId, id)
        found == findInOrganization(withAdmins, user, data.userIds, "user")
    IN  IF user.accountType = "null" THEN Raised("none", 500)
        ELSE IF user.accountType # "main" \/ user.adminType # "unlimited"
             THEN Raised("none", 403)
        ELSE IF fail.at = "findParent" THEN Raised("none", 500)
        ELSE IF ~AccountExists(data.parentId) THEN Raised("none", 404)
        ELSE IF fail.at = "findPrimary" THEN Raised("none", 500)
        ELSE IF ~primaryAdminFound(user, data.primaryAdminId) THEN Raised("none", 404)
        ELSE IF fail.at = "saveAccount" THEN Raised("none", 500)
        ELSE IF fail.at = "savePrimary" THEN Result(saved, users, id + 1, "none", 500)
        ELSE IF fail.at = "findAdmins" THEN Result(saved, withPrimary, id + 1, "none", 500)
        ELSE IF fail.at = "saveAdmin"
                /\ fail.done \in ProperSubsets(admins \ {data.primaryAdminId})
             THEN Result(saved, assignAdmins(withPrimary, fail.done, data.primaryAdminId, id),
                         id + 1, "none", 500)
        ELSE IF fail.at = "findUsers" THEN Result(saved, withAdmins, id + 1, "none", 500)
        ELSE IF fail.at = "saveUser" /\ fail.done \in ProperSubsets(found)
             THEN Result(saved, Reassign(withAdmins, fail.done, id), id + 1, "none", 500)
        ELSE Result(saved, Reassign(withAdmins, found, id), id + 1, "none", 0)

\* the request passes the three preconditions of createAccount
createAccountAdmitted(user, data) ==
    /\ user.accountType = "main"
    /\ user.adminType = "unlimited"
    /\ AccountExists(data.parentId)
    /\ primaryAdminFound(user, data.primaryAdminId)

createAccount(c, data, fail) ==
    /\ client[c] # NoClientUser
    /\ (createAccountAdmitted(client[c], data) /\ fail.at \notin {"findParent", "findPrimary"})
          => nextAccountId <= MaxSerialAccounts
    /\ fail.at \in {"saveAdmin", "saveUser"} =>
          /\ createAccountAdmitted(client[c], data)
          /\ LET withPrimary == assignPrimaryAdmin(users, data.primaryAdminId,
                                                   nextAccountId, data.adminType)
                 admins == findInOrganization(withPrimary, client[c], data.adminIds, "admin")
                 withAdmins == assignAdmins(withPrimary, admins, data.primaryAdminId,
                                            nextAccountId)
             IN  IF fail.at = "saveAdmin"
                 THEN fail.done \in ProperSubsets(admins \ {data.primaryAdminId})
                 ELSE fail.done \in ProperSubsets(
                          findInOrganization(withAdmins, client[c], data.userIds, "user"))
    /\ Finish(createAccountResult(client[c], data, fail))

(* ------------------- createAccount, compiled build --------------------- *)
\* dist/controllers/account.controller.js loads the listed rows with
\* findByIds and filters inside the loops.  In the user loop the loop
\* variable shadows the actor, so user.accountId !== user.accountId compares
\* a row with itself and never skips.
distAdmins(usr, user, ids) ==
    {u \in ids \cap ExistingUsers : usr[u].role = "admin" /\ usr[u].accountId = user.accountId}
distUsers(usr, ids) == {u \in ids \cap ExistingUsers : usr[u].role = "user"}

\* data as for createAccountResult; the build stores name as it was sent
createAccountDistResult(user, data, fail) ==
    LET id == nextAccountId
        newAccount == [type |-> data.type, parentId |-> data.parentId,
                       primaryAdminId |-> data.primaryAdminId, name |-> data.name]
        saved == [accounts EXCEPT ![id] = newAccount]
        withPrimary == assignPrimaryAdmin(users, data.primaryAdminId, id, data.adminType)
        admins == distAdmins(withPrimary, user, data.adminIds)
        withAdmins == assignAdmins(withPrimary, admins, data.primaryAdminId, id)
        found == distUsers(withPrimary, data.userIds)
    IN  IF user.accountType = "null" THEN Raised("none", 500)
        ELSE IF user.accountType # "main" \/ user.adminType # "unlimited"
             THEN Raised("none", 403)
        ELSE IF fail.at = "findParent" THEN Raised("none", 500)
        ELSE IF ~AccountExists(data.parentId) THEN Raised("none", 404)
        ELSE IF fail.at = "findPrimary" THEN Raised("none", 500)
        ELSE IF ~primaryAdminFound(user, data.primaryAdminId) THEN Raised("none", 404)
        ELSE IF fail.at = "saveAccount" THEN Raised("none", 500)
        ELSE IF fail.at = "savePrimary" THEN Result(saved, users, id + 1, "none", 500)
        ELSE IF fail.at \in {"findAdmins", "findUsers"}
             THEN Result(saved, withPrimary, id + 1, "none", 500)
        ELSE IF fail.at = "saveAdmin"
                /\ fail.done \in ProperSubsets(admins \ {data.primaryAdminId})
             THEN Result(saved, assignAdmins(withPrimary, fail.done, data.primaryAdminId, id),
                         id + 1, "none", 500)
        ELSE IF fail.at = "saveUser" /\ fail.done \in ProperSubsets(found)
             THEN Result(saved, Reassign(withAdmins, fail.done, id), id + 1, "none", 500)
        ELSE Result(saved, Reassign(withAdmins, found, id), id + 1, "none", 0)

createAccountDist(c, data, fail) ==
    /\ client[c] # NoClientUser
    /\ (createAccountAdmitted(client[c], data) /\ fail.at \notin {"findParent", "findPrimary"})
          => nextAccountId <= MaxSerialAccounts
    /\ Finish(createAccountDistResult(client[c], data, fail))

(* ------------------------- createUser ---------------------------------- *)
\* createUserResult that stores the adminType of the request for every role
createUserResult_keepsAdminType(user, data, fail) ==
    LET newUser == [role |-> data.role, adminType |-> data.adminType,
                    accountId |-> data.accountId, email |-> data.email]
    IN  IF user.accountType = "null" THEN Raised("none", 500)
        ELSE IF user.accountType # "main" \/ user.adminType # "unlimited"
             THEN Raised("none", 403)
        ELSE IF fail.at = "findAccount" THEN Raised("none", 500)
        ELSE IF ~AccountExists(data.accountId) THEN Raised("none", 404)
        ELSE IF fail.at = "findEmail" THEN Raised("none", 500)
        ELSE IF EmailStored(data.email) THEN Raised("none", 409)
        ELSE IF fail.at = "save" THEN Raised("none", 500)
        ELSE Result(accounts, [users EXCEPT ![NextUserId] = newUser], nextAccountId,
                    "none", 0)

\* createUserResult without the email lookup
createUserResult_noEmailCheck(user, data, fail) ==
    LET newUser == [role |-> data.role,
                    adminType |-> IF data.role = "admin" THEN data.adminType ELSE "none",
                    accountId |-> data.accountId,
                    email |-> data.email]
    IN  IF user.accountType = "null" THEN Raised("none", 500)
        ELSE IF user.accountType # "main" \/ user.adminType # "unlimited"
             THEN Raised("none", 403)
        ELSE IF fail.at = "findAccount" THEN Raised("none", 500)
        ELSE IF ~AccountExists(data.accountId) THEN Raised("none", 404)
        ELSE IF fail.at = "save" THEN Raised("none", 500)
        ELSE Result(accounts, [users EXCEPT ![NextUserId] = newUser], nextAccountId,
                    "none", 0)

\* data: [email, role, adminType, accountId]
createUserResult(user, data, fail) ==
    LET id == NextUserId
        newUser == [role |-> data.role,
                    adminType |-> IF data.role = "admin" THEN data.adminType ELSE "none",
                    accountId |-> data.accountId,
                    email |-> data.email]
    IN  IF user.accountType = "null" THEN Raised("none", 500)
        ELSE IF user.accountType # "main" \/ user.adminType # "unlimited"
             THEN Raised("none", 403)
        ELSE IF fail.at = "findAccount" THEN Raised("none", 500)
        ELSE IF ~AccountExists(data.accountId) THEN Raised("none", 404)
        ELSE IF fail.at = "findEmail" THEN Raised("none", 500)
        ELSE IF \E u \in ExistingUsers : users[u].email = data.email THEN Raised("none", 409)
        ELSE IF fail.at = "save" THEN Raised("none", 500)
        ELSE Result(accounts, [users EXCEPT ![id] = newUser], nextAccountId, "none", 0)

createUser(c, data, fail) ==
    /\ client[c] # NoClientUser
    /\ NextUserId <= MaxUsers
    /\ Finish(createUserResult(client[c], data, fail))

(* ------------------------- connections --------------------------------- *)
\* a message with the token of user u on a connection that has no cached
\* user: authenticate() loads the user and handleAccountOperations caches it
authenticate(c, u) ==
    /\ client[c] = NoClientUser
    /\ UserExists(u)
    /\ client' = [client EXCEPT ![c] = LoadUser(u)]
    /\ UNCHANGED <<accounts, nextAccountId, users, calls, sockVars, memberUsers, link>>

\* the connection closes; a later connection of the clientId starts without user
cleanupClient(c) ==
    /\ client[c] # NoClientUser
    /\ client' = [client EXCEPT ![c] = NoClientUser]
    /\ UNCHANGED <<accounts, nextAccountId, users, calls, sockVars, memberUsers, link>>

(* ------------------------- specification ------------------------------- *)
\* the stores after initializeDatabase migrated one external admin into an
\* empty database: a main account and its unlimited admin
Init ==
    /\ accounts = [a \in AccountIds |->
                      IF a = 1 THEN [type |-> "main", parentId |-> NULL,
                                     primaryAdminId |-> GhostUserId,
                                     name |-> "Ministry of Education"]
                      ELSE NoAccount]
    /\ nextAccountId = 2
    /\ users = [u \in UserIds |->
                   IF u = 1 THEN [role |-> "admin", adminType |-> "unlimited",
                                  accountId |-> 1, email |-> 1]
                   ELSE NoUser]
    /\ client = [c \in Conns |-> NoClientUser]
    /\ calls = [h \in Handlers |-> IdleCall]
    /\ memberUsers = [m \in MemberIds |-> NoUser]
    /\ link = [c \in Conns |-> NoLink]
    /\ InitSockets

\* request inputs
EditRequests ==
    [accountId : RequestAccountIds, name : EditNames,
     primaryAdminId : {NULL} \cup RequestUserIds]
AssignRequests == [accountId : RequestAccountIds, userIds : SUBSET UserIds]
Listings ==
    {l \in [adminIds : SUBSET UserIds, userIds : SUBSET UserIds] :
        Cardinality(l.adminIds) + Cardinality(l.userIds) <= MaxListed}
CreateRequest(n, t, p, a, at, l) ==
    [name |-> n, type |-> t, parentId |-> p, primaryAdminId |-> a, adminType |-> at,
     adminIds |-> l.adminIds, userIds |-> l.userIds]
CreateRequests ==
    {CreateRequest(n, t, p, a, at, l) :
        n \in CreateNames, t \in CreateTypes, p \in RequestAccountIds,
        a \in RequestUserIds, at \in {"limited", "unlimited"}, l \in Listings}
\* emails are opaque: a request names a stored email or the first unused one
Emails == 1..MaxUsers
CreateUserRequests ==
    [email : Emails, role : {"admin", "user"},
     adminType : {"none", "limited", "unlimited"}, accountId : RequestAccountIds]

\* the store faults of each operation
PermFaults(user, t) == {LookupFault("perm", n) : n \in 1..permissionLookups(user, t)}
MainFaults(user) == {LookupFault("main", n) : n \in 1..mainLookups(user.accountId)}
LoopFaults(at, S) == {LoopFault(at, D) : D \in ProperSubsets(S)}
PointFaults(S) == {Fault(a) : a \in S}
EditFaults(user, t) ==
    {NoFail} \cup PermFaults(user, t) \cup PointFaults({"findAccount", "findAdmin", "save"})
DeleteFaults(user, t) ==
    {NoFail} \cup PermFaults(user, t) \cup MainFaults(user)
        \cup LoopFaults("saveUser", UsersOf(t))
        \cup PointFaults({"findAccount", "findParent", "delete"})
AssignFaults(user, d) ==
    {NoFail} \cup PermFaults(user, d.accountId) \cup MainFaults(user)
        \cup LoopFaults("saveUser", d.userIds)
        \cup PointFaults({"findAccount", "findUsers"})
CreateFaults(d) ==
    {NoFail} \cup LoopFaults("saveAdmin", d.adminIds) \cup LoopFaults("saveUser", d.userIds)
        \cup PointFaults({"findParent", "findPrimary", "saveAccount", "savePrimary",
                          "findAdmins", "findUsers"})
CreateUserFaults == {NoFail} \cup PointFaults({"findAccount", "findEmail", "save"})

\* A fault before the first write of an operation leaves the stores as a
\* refused request does.  Next takes one such fault per operation and every
\* fault that strikes after a write or changes what a walk returns.
ExploredEditFaults == {NoFail, Fault("save")}
ExploredDeleteFaults(user, t) ==
    {NoFail, Fault("delete")} \cup MainFaults(user) \cup LoopFaults("saveUser", UsersOf(t))
ExploredAssignFaults(d) == {NoFail} \cup LoopFaults("saveUser", d.userIds)
ExploredCreateFaults(d) == CreateFaults(d) \ PointFaults({"findParent", "findPrimary"})
ExploredCreateUserFaults == {NoFail, Fault("save")}

\* the free text and the account types the exploration of the stores uses
ExploredNames == {""}
ExploredTypes == {"regional"}

\* Requests that differ only in fields the handler never reads take the same
\* step: Next enumerates one of them.
NoListing == [adminIds |-> {}, userIds |-> {}]

createAccountNext(c) ==
    \E p \in RequestAccountIds, a \in RequestUserIds :
        LET probe == CreateRequest("acme", "regional", p, a, "limited", NoListing)
        IN  IF createAccountAdmitted(client[c], probe)
            THEN \E d \in CreateRequests :
                    /\ d.type \in ExploredTypes
                    /\ d.parentId = p
                    /\ d.primaryAdminId = a
                    /\ \E f \in ExploredCreateFaults(d) : createAccount(c, d, f)
            ELSE createAccount(c, probe, NoFail)

\* the same requests handled by the compiled build
createAccountDistNext(c) ==
    \E p \in RequestAccountIds, a \in RequestUserIds :
        LET probe == CreateRequest("acme", "regional", p, a, "limited", NoListing)
        IN  IF createAccountAdmitted(client[c], probe)
            THEN \E d \in CreateRequests :
                    /\ d.type \in ExploredTypes
                    /\ d.parentId = p
                    /\ d.primaryAdminId = a
                    /\ \E f \in ExploredCreateFaults(d) : createAccountDist(c, d, f)
            ELSE createAccountDist(c, probe, NoFail)

editAccountNext(c) ==
    \E t \in RequestAccountIds :
        IF checkPermission(client[c], t, 0)
        THEN \E d \in EditRequests :
                /\ d.accountId = t
                /\ d.name \in ExploredNames
                /\ \E f \in ExploredEditFaults : editAccount(c, d, f)
        ELSE editAccount(c, [accountId |-> t, name |-> "", primaryAdminId |-> NULL], NoFail)

deleteAccountNext(c) ==
    \E t \in RequestAccountIds :
        IF checkPermission(client[c], t, 0)
        THEN \E f \in ExploredDeleteFaults(client[c], t) : deleteAccount(c, t, f)
        ELSE deleteAccount(c, t, NoFail)

assignUsersNext(c) ==
    \E t \in RequestAccountIds :
        IF checkPermission(client[c], t, 0)
        THEN \E d \in AssignRequests :
                /\ d.accountId = t
                /\ \E f \in ExploredAssignFaults(d) : assignUsers(c, d, f)
        ELSE assignUsers(c, [accountId |-> t, userIds |-> {}], NoFail)

\* the same requests handled by the compiled build
assignUsersDistNext(c) ==
    \E t \in RequestAccountIds :
        IF checkPermissionDist(client[c], t, 0) = "true"
        THEN \E d \in AssignRequests :
                /\ d.accountId = t
                /\ \E f \in ExploredAssignFaults(d) : assignUsersDist(c, d, f)
        ELSE assignUsersDist(c, [accountId |-> t, userIds |-> {}], NoFail)

createUserNext(c) ==
    IF client[c].accountType = "main" /\ client[c].adminType = "unlimited"
    THEN \E d \in CreateUserRequests :
            /\ d.email <= NextUserId
            /\ d.role = "user" => d.adminType = "none"
            /\ \E f \in ExploredCreateUserFaults : createUser(c, d, f)
    ELSE createUser(c, [email |-> 1, role |-> "user", adminType |-> "none",
                        accountId |-> 1], NoFail)

Next ==
    \/ \E c \in Conns, u \in UserIds : authenticate(c, u)
    \/ \E c \in Conns : cleanupClient(c)
    \/ \E c \in Conns : client[c] # NoClientUser /\ createAccountNext(c)
    \/ \E c \in Conns : client[c] # NoClientUser /\ createAccountDistNext(c)
    \/ \E c \in Conns : client[c] # NoClientUser /\ editAccountNext(c)
    \/ \E c \in Conns : client[c] # NoClientUser /\ deleteAccountNext(c)
    \/ \E c \in Conns : client[c] # NoClientUser /\ assignUsersNext(c)
    \/ \E c \in Conns : client[c] # NoClientUser /\ assignUsersDistNext(c)
    \/ \E c \in Conns : client[c] # NoClientUser /\ createUserNext(c)

Spec == Init /\ [][Next]_vars

(* ------------- createAccount, one store call at a time ----------------- *)
\* ws.on('message', async ...) starts a handler for every message and does
\* not wait for the previous one: a handler runs until its next await, and
\* then any other handler may continue.  Each action below is the piece of
\* createAccount between two awaits, run by handler h.
Frame(h) == calls[h]
SetFrame(h, f) == calls' = [calls EXCEPT ![h] = f]
Ended(f, thrown) == [f EXCEPT !.pc = "done", !.thrown = thrown]

\* a message with action 'create' arrives on connection c: the listener
\* dispatches it with the cached client.user, and createAccount runs up to
\* its first await, the lookup of the parent
receive(h, c, d) ==
    /\ Frame(h).pc = "idle"
    /\ client[c] # NoClientUser
    /\ LET f == [IdleCall EXCEPT !.conn = c, !.user = client[c], !.data = d]
       IN  IF f.user.accountType = "null" THEN SetFrame(h, Ended(f, 500))
           ELSE IF f.user.accountType # "main" \/ f.user.adminType # "unlimited"
                THEN SetFrame(h, Ended(f, 403))
           ELSE SetFrame(h, [f EXCEPT !.pc = "findParent"])
    /\ UNCHANGED <<accounts, nextAccountId, users, client, memberUsers, link, sockVars>>

\* accountRepository.findOne({id: parentId}) resolves
findParentStep(h) ==
    /\ Frame(h).pc = "findParent"
    /\ IF AccountExists(Frame(h).data.parentId)
       THEN SetFrame(h, [Frame(h) EXCEPT !.pc = "findPrimary"])
       ELSE SetFrame(h, Ended(Frame(h), 404))
    /\ UNCHANGED <<accounts, nextAccountId, users, client, memberUsers, link, sockVars>>

\* userRepository.findOne({id: primaryAdminId, role, accountId}) resolves
findPrimaryStep(h) ==
    /\ Frame(h).pc = "findPrimary"
    /\ IF primaryAdminFound(Frame(h).user, Frame(h).data.primaryAdminId)
       THEN SetFrame(h, [Frame(h) EXCEPT !.pc = "saveAccount"])
       ELSE SetFrame(h, Ended(Frame(h), 404))
    /\ UNCHANGED <<accounts, nextAccountId, users, client, memberUsers, link, sockVars>>

\* accountRepository.save(newAccount) resolves
saveAccountStep(h) ==
    /\ Frame(h).pc = "saveAccount"
    /\ nextAccountId <= MaxAccounts
    /\ LET d == Frame(h).data
       IN  accounts' = [accounts EXCEPT ![nextAccountId] =
                           [type |-> d.type, parentId |-> d.parentId,
                            primaryAdminId |-> d.primaryAdminId,
                            name |-> sanitizeHtml(d.name)]]
    /\ nextAccountId' = nextAccountId + 1
    /\ SetFrame(h, [Frame(h) EXCEPT !.pc = "savePrimary", !.id = nextAccountId])
    /\ UNCHANGED <<users, client, memberUsers, link, sockVars>>

\* userRepository.save(primaryAdmin) resolves
savePrimaryStep(h) ==
    /\ Frame(h).pc = "savePrimary"
    /\ LET d == Frame(h).data
       IN  /\ users' = assignPrimaryAdmin(users, d.primaryAdminId, Frame(h).id, d.adminType)
           /\ SetFrame(h, [Frame(h) EXCEPT !.pc = "findAdmins",
                                           !.reported = {d.primaryAdminId}])
    /\ UNCHANGED <<accounts, nextAccountId, client, memberUsers, link, sockVars>>

\* userRepository.find(admins) resolves; the rows are kept as loaded
findAdminsStep(h) ==
    /\ Frame(h).pc = "findAdmins"
    /\ LET d == Frame(h).data
           admins == findInOrganization(users, Frame(h).user, d.adminIds, "admin")
                         \ {d.primaryAdminId}
       IN  SetFrame(h, [Frame(h) EXCEPT
                           !.pc = IF admins = {} THEN "findUsers" ELSE "saveAdmin",
                           !.rows = users, !.todo = admins,
                           !.reported = @ \cup admins])
    /\ UNCHANGED <<accounts, nextAccountId, users, client, memberUsers, link, sockVars>>

\* userRepository.save(admin) resolves for one row of the admin loop
saveAdminStep(h) ==
    /\ Frame(h).pc = "saveAdmin"
    /\ \E u \in Frame(h).todo :
          /\ users' = [users EXCEPT
                          ![u].accountId = Frame(h).id,
                          ![u].adminType = IF Frame(h).rows[u].adminType = "none"
                                           THEN "limited"
                                           ELSE Frame(h).rows[u].adminType]
          /\ SetFrame(h, [Frame(h) EXCEPT
                             !.todo = @ \ {u},
                             !.pc = IF Frame(h).todo = {u} THEN "findUsers"
                                    ELSE "saveAdmin"])
    /\ UNCHANGED <<accounts, nextAccountId, client, memberUsers, link, sockVars>>

\* userRepository.find(users) resolves; with no row the response is sent
findUsersStep(h) ==
    /\ Frame(h).pc = "findUsers"
    /\ LET found == findInOrganization(users, Frame(h).user, Frame(h).data.userIds, "user")
       IN  SetFrame(h, [Frame(h) EXCEPT
                           !.pc = IF found = {} THEN "done" ELSE "saveUser",
                           !.todo = found, !.reported = @ \cup found])
    /\ UNCHANGED <<accounts, nextAccountId, users, client, memberUsers, link, sockVars>>

\* userRepository.save(user) resolves for one row of the user loop; after
\* the last row the response is sent
saveUserStep(h) ==
    /\ Frame(h).pc = "saveUser"
    /\ \E u \in Frame(h).todo :
          /\ users' = [users EXCEPT ![u].accountId = Frame(h).id]
          /\ SetFrame(h, [Frame(h) EXCEPT
                             !.todo = @ \ {u},
                             !.pc = IF Frame(h).todo = {u} THEN "done" ELSE "saveUser"])
    /\ UNCHANGED <<accounts, nextAccountId, client, memberUsers, link, sockVars>>

\* the stores after createUser added a second admin and a user to the main
\* account, with the unlimited main admin authenticated on the connection
InitInterleaved ==
    /\ accounts = [a \in AccountIds |->
                      IF a = 1 THEN [type |-> "main", parentId |-> NULL,
                                     primaryAdminId |-> GhostUserId,
                                     name |-> "Ministry of Education"]
                      ELSE NoAccount]
    /\ nextAccountId = 2
    /\ users = [u \in UserIds |->
                   IF u = 1 THEN [role |-> "admin", adminType |-> "unlimited",
                                  accountId |-> 1, email |-> 1]
                   ELSE IF u = 2 THEN [role |-> "admin", adminType |-> "none",
                                       accountId |-> 1, email |-> 2]
                   ELSE [role |-> "user", adminType |-> "none",
                         accountId |-> 1, email |-> 3]]
    /\ client = [c \in Conns |->
                    [id |-> 1, role |-> "admin", adminType |-> "unlimited",
                     accountId |-> 1, accountType |-> "main"]]
    /\ calls = [h \in Handlers |-> IdleCall]
    /\ memberUsers = [m \in MemberIds |-> NoUser]
    /\ link = [c \in Conns |-> NoLink]
    /\ InitSockets

\* the create requests the interleaved handlers receive
InterleavedRequests ==
    {CreateRequest("acme", "regional", p, a, "limited", [adminIds |-> A, userIds |-> U]) :
        p \in {1, 2}, a \in {1, 2}, A \in SUBSET {2}, U \in SUBSET {3}}

NextInterleaved ==
    \/ \E h \in Handlers, c \in Conns, d \in InterleavedRequests : receive(h, c, d)
    \/ \E h \in Handlers : findParentStep(h)
    \/ \E h \in Handlers : findPrimaryStep(h)
    \/ \E h \in Handlers : saveAccountStep(h)
    \/ \E h \in Handlers : savePrimaryStep(h)
    \/ \E h \in Handlers : findAdminsStep(h)
    \/ \E h \in Handlers : saveAdminStep(h)
    \/ \E h \in Handlers : findUsersStep(h)
    \/ \E h \in Handlers : saveUserStep(h)

SpecInterleaved == InitInterleaved /\ [][NextInterleaved]_vars

(* ------------- createUser, one store call at a time -------------------- *)
\* a message with action 'create' arrives on /api/users: the listener of
\* the compiled server authenticates the token of user u and createUser
\* runs up to its first await, the lookup of the account
receiveCreateUser(h, u, d) ==
    /\ Frame(h).pc = "idle"
    /\ UserExists(u)
    /\ LET f == [IdleCall EXCEPT !.conn = "c1", !.user = LoadUser(u), !.data = d]
       IN  IF f.user.accountType = "null" THEN SetFrame(h, Ended(f, 500))
           ELSE IF f.user.accountType # "main" \/ f.user.adminType # "unlimited"
                THEN SetFrame(h, Ended(f, 403))
           ELSE SetFrame(h, [f EXCEPT !.pc = "findAccount"])
    /\ UNCHANGED <<accounts, nextAccountId, users, client, memberUsers, link, sockVars>>

\* accountRepository.findOne({id: accountId}) resolves
findAccountStep(h) ==
    /\ Frame(h).pc = "findAccount"
    /\ IF AccountExists(Frame(h).data.accountId)
       THEN SetFrame(h, [Frame(h) EXCEPT !.pc = "findEmail"])
       ELSE SetFrame(h, Ended(Frame(h), 404))
    /\ UNCHANGED <<accounts, nextAccountId, users, client, memberUsers, link, sockVars>>

\* userRepository.findOne({email}) resolves
findEmailStep(h) ==
    /\ Frame(h).pc = "findEmail"
    /\ IF EmailStored(Frame(h).data.email)
       THEN SetFrame(h, Ended(Frame(h), 409))
       ELSE SetFrame(h, [Frame(h) EXCEPT !.pc = "insertUser"])
    /\ UNCHANGED <<accounts, nextAccountId, users, client, memberUsers, link, sockVars>>

\* userRepository.save(newUser) resolves and the response is sent, or it
\* rejects with the violation of the unique index and the error is sent
insertUserStep(h) ==
    /\ Frame(h).pc = "insertUser"
    /\ NextUserId <= MaxUsers
    /\ LET d == Frame(h).data
       IN  IF UniqueViolation(users, memberUsers, d.email)
           THEN /\ users' = users
                /\ SetFrame(h, Ended(Frame(h), 500))
           ELSE /\ users' = [users EXCEPT ![NextUserId] =
                                [role |-> d.role,
                                 adminType |-> IF d.role = "admin" THEN d.adminType
                                               ELSE "none",
                                 accountId |-> d.accountId,
                                 email |-> d.email]]
                /\ SetFrame(h, [Ended(Frame(h), 0) EXCEPT !.id = NextUserId])
    /\ UNCHANGED <<accounts, nextAccountId, client, memberUsers, link, sockVars>>

\* the listener invocation of handler h returns
handlerReturns(h) ==
    /\ Frame(h).pc = "done"
    /\ SetFrame(h, IdleCall)
    /\ UNCHANGED <<accounts, nextAccountId, users, client, memberUsers, link, sockVars>>

\* the createUser requests the interleaved handlers receive
InterleavedUserRequests ==
    {d \in CreateUserRequests :
        /\ d.email \in {1, 2}
        /\ d.accountId \in {1, MissingAccountId}
        /\ d.role = "user" => d.adminType = "none"}

NextCreateUsers ==
    \/ \E h \in Handlers, u \in UserIds, d \in InterleavedUserRequests :
          receiveCreateUser(h, u, d)
    \/ \E h \in Handlers : findAccountStep(h)
    \/ \E h \in Handlers : findEmailStep(h)
    \/ \E h \in Handlers : insertUserStep(h)
    \/ \E h \in Handlers : handlerReturns(h)

SpecCreateUsers == Init /\ [][NextCreateUsers]_vars

(* ------------------------- reconciliation ------------------------------ *)
\* number of records an external endpoint returns
MaxRecords == 2
\* number of runs of the pingInterval callback of one socket
MaxTicks == 4
\* number of findOne calls of one ancestor walk that are followed
MaxLookups == 5
\* number of admins the external system lists, and of its schedules
MaxAdmins == 3
MaxSchedules == 3
\* the limit of one page of admins and the number of schedules of one
\* batch; the controller uses 100 and 5, the model smaller numbers
pageSize == 2
batchSize == 2
\* phone numbers of external records; NoPhone is a missing or empty phone
Phones == {1, 2}
NoPhone == 0
\* an email no local request names
FreshEmail == MaxUsers + 1
\* `user-${memberId}@unknown.com` and `user-${id}@example.com`
unknownEmail(m) == 0 - m
exampleEmail(i) == 0 - (MaxMembers + i)

SeqsUpTo(S, n) == UNION {[1..k -> S] : k \in 0..n}
ExistsIn(acc, a) == a \in AccountIds /\ acc[a] # NoAccount
\* userRepository.findOne({where: {email}}) finds a row
EmailTaken(usr, mem, e) ==
    \/ \E u \in UserIds : usr[u] # NoUser /\ usr[u].email = e
    \/ \E m \in MemberIds : mem[m] # NoUser /\ mem[m].email = e
\* the id the next inserted row of the store usr gets
NextIdIn(usr) == Cardinality({u \in UserIds : usr[u] # NoUser}) + 1

\* what the attendance endpoint returns, in order
AttendanceRecords ==
    [memberId : {NULL} \cup MemberIds, phone : {NoPhone} \cup Phones,
     email : {NULL, 1, FreshEmail}]

\* a map whose set leaves the record of a known key as it is
MapSet_keepsFirst(map, rec) ==
    IF \E i \in 1..Len(map) : map[i].phone = rec.phone THEN map ELSE Append(map, rec)

\* Map.set(phone, record): a known key keeps its place and takes the record
MapSet(map, rec) ==
    IF \E i \in 1..Len(map) : map[i].phone = rec.phone
    THEN [i \in 1..Len(map) |-> IF map[i].phone = rec.phone THEN rec ELSE map[i]]
    ELSE Append(map, rec)

\* phoneUserMap.values(): the records with a memberId and a phone, one per phone
RECURSIVE phoneUserMap(_)
phoneUserMap(records) ==
    IF records = <<>> THEN <<>>
    ELSE LET n == Len(records)
             rec == records[n]
             before == phoneUserMap(SubSeq(records, 1, n - 1))
         IN  IF rec.memberId = NULL \/ rec.phone = NoPhone THEN before
             ELSE MapSet(before, rec)

\* uniqueUsers: the rows the run wants in the User Store
uniqueUsers(records, mainAccountId) ==
    LET map == phoneUserMap(records)
    IN  [i \in 1..Len(map) |->
            [id |-> map[i].memberId,
             email |-> IF map[i].email = NULL THEN unknownEmail(map[i].memberId)
                       ELSE map[i].email,
             phone |-> map[i].phone,
             accountId |-> mainAccountId]]

\* what a getOrganizationUsers call leaves behind: the rows user-<memberId>,
\* the number of save calls that resolved, the status of the error raised,
\* and the phones of the admins and users in the response it sent
SyncResult(mem, saves, thrown, admins, members) ==
    [members |-> mem, saves |-> saves, thrown |-> thrown,
     admins |-> admins, users |-> members]
SyncRaised(mem, saves, thrown) == SyncResult(mem, saves, thrown, {}, {})

\* the sync loop; sf is the index of the save that throws.  save() of a row
\* whose id is already stored updates that row.
RECURSIVE syncUsers(_, _, _, _)
syncUsers(list, mem, saves, sf) ==
    IF list = <<>> THEN SyncRaised(mem, saves, 0)
    ELSE LET userData == Head(list)
         IN  IF EmailTaken(users, mem, userData.email) \/ ~AccountExists(userData.accountId)
             THEN syncUsers(Tail(list), mem, saves, sf)
             ELSE IF sf = saves + 1 THEN SyncRaised(mem, saves, 500)
             ELSE syncUsers(Tail(list),
                            [mem EXCEPT ![userData.id] =
                                [role |-> "user", adminType |-> "none",
                                 accountId |-> userData.accountId,
                                 email |-> userData.email, phone |-> userData.phone]],
                            saves + 1, sf)

\* getOrganizationUsersOn that goes on after a failed token validation
getOrganizationUsersOn_unverified(mem, user, ext, fail) ==
    LET mainAccountId == IF user.accountType = "main" THEN user.accountId
                         ELSE getMainAccount(user.accountId, MainFault(fail))
        wanted == uniqueUsers(ext.records, mainAccountId)
        synced == syncUsers(wanted, mem, 0, 0)
    IN  IF user.role # "admin" THEN SyncRaised(mem, 0, 403)
        ELSE IF user.accountType = "null" THEN SyncRaised(mem, 0, 500)
        ELSE IF mainAccountId = NULL THEN SyncRaised(mem, 0, 404)
        ELSE IF fail.at \in {"verify", "invalid"}
             THEN SyncRaised(synced.members, synced.saves, 401)
        ELSE SyncRaised(mem, 0, 500)

\* ext: [adminPhones, records]; fail.at names the request or store call that
\* fails: "invalid" is a verify response without valid
getOrganizationUsersOn(mem, user, ext, fail) ==
    LET mainAccountId == IF user.accountType = "main" THEN user.accountId
                         ELSE getMainAccount(user.accountId, MainFault(fail))
        wanted == uniqueUsers(ext.records, mainAccountId)
        synced == syncUsers(wanted, mem, 0, IF fail.at = "save" THEN fail.n ELSE 0)
        userPhones == {wanted[i].phone : i \in 1..Len(wanted)}
    IN  IF user.role # "admin" THEN SyncRaised(mem, 0, 403)
        ELSE IF user.accountType = "null" THEN SyncRaised(mem, 0, 500)
        ELSE IF mainAccountId = NULL THEN SyncRaised(mem, 0, 404)
        ELSE IF fail.at \in {"verify", "invalid"} THEN SyncRaised(mem, 0, 401)
        ELSE IF fail.at \in {"admins", "schedules", "attendance"} THEN SyncRaised(mem, 0, 500)
        ELSE IF synced.thrown # 0 THEN synced
        ELSE IF fail.at = "findLocal" THEN SyncRaised(synced.members, synced.saves, 500)
        ELSE SyncResult(synced.members, synced.saves, 0,
                        (ext.adminPhones \ {NoPhone}) \ userPhones, userPhones)

getOrganizationUsersResult(user, ext, fail) ==
    getOrganizationUsersOn(memberUsers, user, ext, fail)

getOrganizationUsers(c, ext, fail) ==
    /\ client[c] # NoClientUser
    /\ memberUsers' = getOrganizationUsersResult(client[c], ext, fail).members
    /\ UNCHANGED <<accounts, nextAccountId, users, client, calls, sockVars, link>>

(* ------------------------- initializeDatabase -------------------------- *)
\* the accountId every admin of the one external organization carries
OrgKey == 7
\* what /clients/user and the schedule endpoint return
ExternalAdmins == [accountId : {NULL, OrgKey}, email : {1, 2}]
ExternalUsers == [id : {1}, account : {NULL, 1, MissingAccountId}, email : {NULL, 3}]

\* findOne with a where clause whose value is undefined: the condition is
\* dropped and some stored row comes back (ignore names one), or no row
\* matches (ignore = NULL)
AnyAccount(acc, ignore) ==
    IF ignore = NULL \/ \A a \in AccountIds : acc[a] = NoAccount THEN NULL
    ELSE IF ExistsIn(acc, ignore) THEN ignore
    ELSE CHOOSE a \in AccountIds : acc[a] # NoAccount

MigrateResult(acc, next, usr, thrown) ==
    [accounts |-> acc, next |-> next, users |-> usr, thrown |-> thrown]

\* the loop over admins: the account is looked up under a fresh uuid when
\* admin.accountId is set, and under undefined when it is not
RECURSIVE migrateAdmins(_, _, _, _, _)
migrateAdmins(admins, acc, next, usr, ignore) ==
    IF admins = <<>> THEN MigrateResult(acc, next, usr, 0)
    ELSE LET admin == Head(admins)
             found == IF admin.accountId # NULL THEN NULL ELSE AnyAccount(acc, ignore)
             mainAccount == IF found = NULL THEN next ELSE found
             acc1 == IF found # NULL THEN acc
                     ELSE [acc EXCEPT ![next] =
                              [type |-> "main", parentId |-> NULL,
                               primaryAdminId |-> GhostUserId,
                               name |-> "Ministry of Education"]]
             next1 == IF found # NULL THEN next ELSE next + 1
             usr1 == IF EmailTaken(usr, memberUsers, admin.email) THEN usr
                     ELSE [usr EXCEPT ![NextIdIn(usr)] =
                              [role |-> "admin", adminType |-> "unlimited",
                               accountId |-> mainAccount, email |-> admin.email]]
         IN  migrateAdmins(Tail(admins), acc1, next1, usr1, ignore)

\* the loop over the users of the schedule response
RECURSIVE migrateUsers(_, _, _, _, _)
migrateUsers(list, acc, next, usr, ignore) ==
    IF list = <<>> THEN MigrateResult(acc, next, usr, 0)
    ELSE LET user == Head(list)
             mainAccount == IF user.account = NULL THEN AnyAccount(acc, ignore)
                            ELSE IF ExistsIn(acc, user.account) THEN user.account
                            ELSE NULL
             existing == IF user.email = NULL
                         THEN ignore # NULL /\ NextIdIn(usr) > 1
                         ELSE EmailTaken(usr, memberUsers, user.email)
             email == IF user.email = NULL THEN exampleEmail(user.id) ELSE user.email
             usr1 == IF mainAccount = NULL \/ existing THEN usr
                     ELSE [usr EXCEPT ![NextIdIn(usr)] =
                              [role |-> "user", adminType |-> "none",
                               accountId |-> mainAccount, email |-> email]]
         IN  IF mainAccount # NULL /\ ~existing
                /\ UniqueViolation(usr, memberUsers, email)
             THEN MigrateResult(acc, next, usr, 1)
             ELSE migrateUsers(Tail(list), acc, next, usr1, ignore)

\* ext: [fails, admins, users].  fails names the request that fails: the
\* login ("login": it throws, "noToken": it answers without token), the
\* fetch of the admins or the fetch of the schedules
initializeDatabaseOn(acc, next, usr, ext, ignore) ==
    IF ext.fails \in {"login", "noToken", "admins"} THEN MigrateResult(acc, next, usr, 1)
    ELSE LET list == IF ext.fails = "schedules" THEN <<>> ELSE ext.users
             afterAdmins == migrateAdmins(ext.admins, acc, next, usr, ignore)
         IN  migrateUsers(list, afterAdmins.accounts, afterAdmins.next,
                          afterAdmins.users, ignore)

initializeDatabaseResult(ext, ignore) ==
    initializeDatabaseOn(accounts, nextAccountId, users, ext, ignore)

\* the process starts (server.ts calls initializeDatabase before it
\* listens): no connection and no handler survives a restart
initializeDatabase(ext, ignore) ==
    LET r == initializeDatabaseResult(ext, ignore)
    IN  /\ r.next <= MaxSerialAccounts + 1
        /\ NextIdIn(r.users) <= MaxUsers + 1
        /\ accounts' = r.accounts
        /\ nextAccountId' = r.next
        /\ users' = r.users
        /\ client' = [c \in Conns |-> NoClientUser]
        /\ calls' = [h \in Handlers |-> IdleCall]
        /\ UNCHANGED <<memberUsers, link, sockVars>>

\* an empty database before the first start of the server
InitReconcile ==
    /\ accounts = [a \in AccountIds |-> NoAccount]
    /\ nextAccountId = 1
    /\ users = [u \in UserIds |-> NoUser]
    /\ client = [c \in Conns |-> NoClientUser]
    /\ calls = [h \in Handlers |-> IdleCall]
    /\ memberUsers = [m \in MemberIds |-> NoUser]
    /\ link = [c \in Conns |-> NoLink]
    /\ InitSockets

\* External data sets that differ only in what a run drops or never reads
\* take the same step: Next enumerates one of them.
initializeDatabaseNext ==
    \/ \E admins \in SeqsUpTo(ExternalAdmins, MaxRecords) :
       \E list \in SeqsUpTo(ExternalUsers, 1), ignore \in {NULL, 1} :
          initializeDatabase([fails |-> "none", admins |-> admins, users |-> list], ignore)
    \/ \E fails \in {"login", "noToken", "admins", "schedules"} :
          initializeDatabase([fails |-> fails, admins |-> <<>>, users |-> <<>>], NULL)

getOrganizationUsersNext(c) ==
    \E records \in SeqsUpTo([memberId : MemberIds, phone : Phones,
                              email : {NULL, FreshEmail}], MaxRecords) :
       \E f \in {NoFail, Fault("verify"), LookupFault("save", 1), LookupFault("save", 2)} :
          getOrganizationUsers(c, [adminPhones |-> {}, records |-> records], f)

NextReconcile ==
    \/ initializeDatabaseNext
    \/ \E c \in Conns, u \in UserIds : authenticate(c, u)
    \/ \E c \in Conns : client[c] # NoClientUser /\ getOrganizationUsersNext(c)

SpecReconcile == InitReconcile /\ [][NextReconcile]_vars

(* ------------------------- the message listener ----------------------- *)
\* pathnames a client asks the upgrade for
Paths == {"/api/accounts", "/api/auth/login", "/api/auth/logout", "/api/ws", "/api/users"}
\* the pathnames that start with an entry of allowedPaths
UpgradePaths == {"/api/accounts", "/api/auth/login", "/api/auth/logout", "/api/ws"}
\* the values of message.action; "other" stands for every other string
MessageActions == {"create", "edit", "delete", "assignUsers", "getAccounts",
                   "getOrganizationUsers", "subscribe", "unsubscribe", "other"}
Tokens == {NoToken, BadToken} \cup {[kind |-> "user", id |-> u] : u \in UserIds}
Messages == [action : MessageActions, token : Tokens]

\* jwt.verify accepts the token and the user it names is stored
TokenValid(t) == t.kind = "user" /\ UserExists(t.id)

\* the upgrade request of connection c for a pathname: a pathname outside
\* allowedPaths gets 404 and the socket is destroyed, any other is
\* registered in clients without user
connect(c, path) ==
    /\ link[c].state # "open"
    /\ link' = [link EXCEPT ![c] =
                   [NoLink EXCEPT !.path = path,
                                  !.state = IF path \in UpgradePaths THEN "open"
                                            ELSE "refused"]]
    /\ client' = [client EXCEPT ![c] = NoClientUser]
    /\ UNCHANGED <<accounts, nextAccountId, users, calls, sockVars, memberUsers>>

\* the socket of connection c closes: the close handler runs cleanupClient
close(c) ==
    /\ link[c].state = "open"
    /\ link' = [link EXCEPT ![c] = [NoLink EXCEPT !.path = link[c].path,
                                                  !.state = "closed"]]
    /\ client' = [client EXCEPT ![c] = NoClientUser]
    /\ UNCHANGED <<accounts, nextAccountId, users, calls, sockVars, memberUsers>>

\* what the listener leaves on connection c after message m: the status of
\* the envelope sent, the controller operation that ran and its user
Answered(c, m, status, ran, by) ==
    link' = [link EXCEPT ![c] = [@ EXCEPT !.action = m.action, !.token = m.token,
                                          !.sent = status, !.ran = ran, !.by = by]]

\* the same, and the socket is closed and the client removed
AnsweredAndClosed(c, m, status) ==
    /\ link' = [link EXCEPT ![c] = [@ EXCEPT !.action = m.action, !.token = m.token,
                                             !.sent = status, !.ran = "none",
                                             !.by = NULL, !.state = "closed"]]
    /\ client' = [client EXCEPT ![c] = NoClientUser]

\* AuthController.login: the external login succeeds or fails, and the
\* email must be the one of a stored admin; a failure is answered with 401
login(c, m) ==
    /\ \E accepted \in BOOLEAN : \E e \in Emails :
          LET localUser == \E u \in ExistingUsers :
                              users[u].email = e /\ users[u].role = "admin"
          IN  Answered(c, m, IF accepted /\ localUser THEN 200 ELSE 401, "login", NULL)
    /\ UNCHANGED <<accounts, nextAccountId, users, client, calls, sockVars, memberUsers>>

\* AuthController.logout and the cleanupClient after it
logout(c, m) ==
    /\ AnsweredAndClosed(c, m, 200)
    /\ UNCHANGED <<accounts, nextAccountId, users, calls, sockVars, memberUsers>>

\* the switch over message.action with the user of the connection
dispatch(c, m, user) ==
    /\ client' = [client EXCEPT ![c] = user]
    /\ UNCHANGED <<calls, sockVars>>
    /\ CASE m.action = "getAccounts" ->
              /\ Answered(c, m, EnvelopeStatus("getAccounts", getAccountsResult(user).thrown),
                          "getAccounts", user.id)
              /\ UNCHANGED <<accounts, nextAccountId, users, memberUsers>>
         [] m.action = "getOrganizationUsers" ->
              \E member \in MemberIds :
              \E f \in {NoFail, Fault("verify")} :
                 LET records == <<[memberId |-> member, phone |-> member, email |-> NULL]>>
                     r == getOrganizationUsersOn(memberUsers, user,
                              [adminPhones |-> {}, records |-> records], f)
                 IN  /\ memberUsers' = r.members
                     /\ Answered(c, m, EnvelopeStatus("getOrganizationUsers", r.thrown),
                                 "getOrganizationUsers", user.id)
                     /\ UNCHANGED <<accounts, nextAccountId, users>>
         [] m.action = "assignUsers" ->
              \E t \in RequestAccountIds, u \in UserIds :
                 LET r == assignUsersResult(user, [accountId |-> t, userIds |-> {u}], NoFail)
                 IN  /\ Apply(r)
                     /\ Answered(c, m, EnvelopeStatus("assignUsers", r.thrown),
                                 "assignUsers", user.id)
                     /\ UNCHANGED memberUsers
         [] m.action = "create" ->
              \E p \in RequestAccountIds, a \in RequestUserIds :
                 LET d == CreateRequest("acme", "regional", p, a, "limited", NoListing)
                     r == createAccountResult(user, d, NoFail)
                 IN  /\ createAccountAdmitted(user, d) => nextAccountId <= MaxSerialAccounts
                     /\ Apply(r)
                     /\ Answered(c, m, EnvelopeStatus("create", r.thrown),
                                 "createAccount", user.id)
                     /\ UNCHANGED memberUsers
         [] OTHER ->
              /\ Answered(c, m, 400, "none", NULL)
              /\ UNCHANGED <<accounts, nextAccountId, users, memberUsers>>

\* handleAccountOperations: a connection without user authenticates the
\* token of the message, if it has one, and keeps the user; a connection
\* with a user goes on with that user
handleAccountOperations(c, m) ==
    LET authenticates == client[c] = NoClientUser /\ m.token # NoToken
        user == IF ~authenticates THEN client[c]
                ELSE IF TokenValid(m.token) THEN LoadUser(m.token.id)
                ELSE NoClientUser
    IN  IF authenticates /\ user = NoClientUser
        THEN /\ AnsweredAndClosed(c, m, 401)
             /\ UNCHANGED <<accounts, nextAccountId, users, calls, sockVars, memberUsers>>
        ELSE IF user = NoClientUser
        THEN /\ Answered(c, m, 401, "none", NULL)
             /\ UNCHANGED <<accounts, nextAccountId, users, client, calls, sockVars, memberUsers>>
        ELSE dispatch(c, m, user)

\* the channel endpoints and every other pathname
otherEndpoint(c, m) ==
    /\ Answered(c, m, IF m.action \in {"subscribe", "unsubscribe"} THEN 200 ELSE 404,
                "none", NULL)
    /\ UNCHANGED <<accounts, nextAccountId, users, client, calls, sockVars, memberUsers>>

\* the message listener of connection c, from the parsed message to the
\* end of the handler it routes to
onMessage(c, m) ==
    /\ link[c].state = "open"
    /\ CASE link[c].path = "/api/auth/login" -> login(c, m)
         [] link[c].path = "/api/auth/logout" -> logout(c, m)
         [] link[c].path = "/api/accounts" -> handleAccountOperations(c, m)
         [] OTHER -> otherEndpoint(c, m)

\* a message that JSON.parse rejects
onMalformed(c) ==
    /\ link[c].state = "open"
    /\ Answered(c, [action |-> "none", token |-> NoToken], 400, "none", NULL)
    /\ UNCHANGED <<accounts, nextAccountId, users, client, calls, sockVars, memberUsers>>

\* the stores of a running organization, and no connection yet
InitServer ==
    /\ accounts = [a \in AccountIds |->
                      IF a = 1 THEN [type |-> "main", parentId |-> NULL,
                                     primaryAdminId |-> GhostUserId,
                                     name |-> "Ministry of Education"]
                      ELSE NoAccount]
    /\ nextAccountId = 2
    /\ users = [u \in UserIds |->
                   IF u = 1 THEN [role |-> "admin", adminType |-> "unlimited",
                                  accountId |-> 1, email |-> 1]
                   ELSE IF u = 2 THEN [role |-> "admin", adminType |-> "none",
                                       accountId |-> 1, email |-> 2]
                   ELSE NoUser]
    /\ client = [c \in Conns |-> NoClientUser]
    /\ calls = [h \in Handlers |-> IdleCall]
    /\ memberUsers = [m \in MemberIds |-> NoUser]
    /\ link = [c \in Conns |-> NoLink]
    /\ InitSockets

NextServer ==
    \/ \E c \in Conns, path \in Paths : connect(c, path)
    \/ \E c \in Conns : close(c)
    \/ \E c \in Conns, m \in Messages : onMessage(c, m)
    \/ \E c \in Conns : onMalformed(c)

SpecServer == InitServer /\ [][NextServer]_vars

(* ------------------------- heartbeat and registry ---------------------- *)
\* the other variables, which the heartbeat leaves alone
storeVars == <<accounts, nextAccountId, users, client, calls, memberUsers, link, walk,
               fetch>>

\* cleanupClient(clientId) on the sockets sk, the registry cl and the
\* channels ch: the entry of the clientId, if there is one, loses its
\* interval, is deleted, leaves every channel and its socket is closed.
\* by and for record the event that ran the cleanup and the socket it
\* belongs to.
cleanupClientOn(sk, cl, ch, clientId, by, for) ==
    LET entry == cl[clientId]
    IN  IF entry = NoEntry THEN [sockets |-> sk, clients |-> cl, channels |-> ch]
        ELSE [sockets |->
                 [x \in Sockets |->
                     LET stopped == IF x = entry.pingInterval
                                    THEN [sk[x] EXCEPT !.pingInterval = "cleared"]
                                    ELSE sk[x]
                     IN  IF x = entry.ws /\ stopped.state = "open"
                         THEN [stopped EXCEPT !.state = "closed", !.closedBy = by,
                                              !.closedFor = for]
                         ELSE stopped],
              clients |-> [cl EXCEPT ![clientId] = NoEntry],
              channels |-> [c \in Channels |-> ch[c] \ {entry.ws}]]

\* the three variables take the fields of r
Settle(r) ==
    /\ sockets' = r.sockets
    /\ clients' = r.clients
    /\ channels' = r.channels

\* inbound traffic on an open socket: what the bookkeeping of the idle
\* time and of the answers to the server's pings notes
Heard(sock) == [sock EXCEPT !.silent = 0, !.replied = TRUE]

\* a client opens socket s on a pathname with clientId k: the handler
\* arms the interval and the timeout and sets the entry of k. The sockets
\* are interchangeable, so they are opened in the order s1, s2.
open(s, k, path) ==
    /\ sockets[s].state = "absent"
    /\ s = "s2" => sockets["s1"].state # "absent"
    /\ sockets' = [sockets EXCEPT ![s] =
                      [NoSocket EXCEPT !.state = "open", !.clientId = k, !.path = path,
                                       !.isAlive = TRUE, !.pingInterval = "armed",
                                       !.timeout = "armed"]]
    /\ clients' = [clients EXCEPT ![k] = [ws |-> s, pingInterval |-> s, user |-> FALSE]]
    /\ UNCHANGED <<channels, storeVars>>

\* PING_INTERVAL has passed on the interval of socket s, which runs until
\* it is cleared: a socket not alive is cleaned up by its clientId, an
\* alive one is marked and pinged
pingIntervalRuns(s) ==
    LET sock == sockets[s]
        aged == [sock EXCEPT !.age = @ + 1,
                             !.silent = IF sock.state = "open" THEN @ + 1 ELSE @,
                             !.responsive = @ /\ (sock.pinged => sock.replied),
                             !.replied = FALSE]
    IN  /\ sock.pingInterval = "armed"
        /\ sock.age < MaxTicks
        /\ sock.age >= WindowTicks => sock.timeout # "armed"
        /\ IF ~sock.isAlive
           THEN Settle(cleanupClientOn([sockets EXCEPT ![s] = aged], clients, channels,
                                       sock.clientId, "heartbeat", s))
           ELSE /\ sockets' = [sockets EXCEPT ![s] =
                                  [aged EXCEPT !.isAlive = FALSE,
                                               !.pinged = (sock.state = "open")]]
                /\ UNCHANGED <<clients, channels>>
        /\ UNCHANGED storeVars

\* CONNECTION_TIMEOUT has passed since socket s was opened and its timeout
\* was not cleared: a clientId with an entry is cleaned up
timeoutRuns(s) ==
    LET sock == sockets[s]
    IN  /\ sock.timeout = "armed"
        /\ sock.age >= WindowTicks
        /\ Settle(cleanupClientOn([sockets EXCEPT ![s].timeout = "fired"], clients,
                                  channels, sock.clientId, "timeout", s))
        /\ UNCHANGED storeVars

\* the text 'ping' or 'pong' arrives on socket s
keepaliveText(s) ==
    /\ sockets[s].state = "open"
    /\ sockets' = [sockets EXCEPT ![s] = [Heard(@) EXCEPT !.isAlive = TRUE]]
    /\ UNCHANGED <<clients, channels, storeVars>>

\* the pong frame that answers the server's ping arrives on socket s; the
\* handler registers no listener for it
pongFrame(s) ==
    /\ sockets[s].state = "open"
    /\ sockets[s].pinged
    /\ sockets' = [sockets EXCEPT ![s] = [Heard(@) EXCEPT !.pinged = FALSE]]
    /\ UNCHANGED <<clients, channels, storeVars>>

\* a message that JSON.parse rejects arrives on socket s
malformedMessage(s) ==
    /\ sockets[s].state = "open"
    /\ sockets' = [sockets EXCEPT ![s] = Heard(@)]
    /\ UNCHANGED <<clients, channels, storeVars>>

\* the kinds of parsed messages: on the accounts endpoint a message
\* without token, with a token authenticate() rejects or with one it
\* accepts; on the channel endpoint a subscribe or an unsubscribe
MessageKinds == {"noToken", "badToken", "goodToken", "subscribe", "unsubscribe"}

\* a message that JSON.parse accepts arrives on socket s: the timeout is
\* cleared and the message is routed by the pathname of the socket
parsedMessage(s, kind, ch) ==
    LET sock == sockets[s]
        heard == [Heard(sock) EXCEPT !.timeout = IF @ = "armed" THEN "cleared" ELSE @]
        entry == clients[sock.clientId]
        authenticates == entry # NoEntry /\ ~entry.user /\ kind \in {"badToken", "goodToken"}
    IN  /\ sock.state = "open"
        /\ UNCHANGED storeVars
        /\ IF sock.path = "/api/accounts"
           THEN IF authenticates /\ kind = "goodToken"
                THEN /\ sockets' = [sockets EXCEPT ![s] =
                                       [heard EXCEPT !.authenticated = TRUE]]
                     /\ clients' = [clients EXCEPT ![sock.clientId].user = TRUE]
                     /\ UNCHANGED channels
                ELSE IF authenticates
                THEN Settle(cleanupClientOn(
                         [sockets EXCEPT ![s] = [heard EXCEPT !.state = "closed",
                                                              !.closedBy = "authenticate",
                                                              !.closedFor = s]],
                         clients, channels, sock.clientId, "close", s))
                ELSE /\ sockets' = [sockets EXCEPT ![s] = heard]
                     /\ UNCHANGED <<clients, channels>>
           ELSE /\ sockets' = [sockets EXCEPT ![s] = heard]
                /\ channels' = IF kind = "subscribe"
                               THEN [channels EXCEPT ![ch] = @ \cup {s}]
                               ELSE IF kind = "unsubscribe"
                               THEN [channels EXCEPT ![ch] = @ \ {s}]
                               ELSE channels
                /\ UNCHANGED clients

\* the peer closes socket s, or the socket fails: the close handler runs
\* cleanupClient with the clientId of the socket
socketCloses(s) ==
    LET sock == sockets[s]
    IN  /\ sock.state = "open"
        /\ Settle(cleanupClientOn(
               [sockets EXCEPT ![s] = [sock EXCEPT !.state = "closed", !.closedBy = "peer",
                                                   !.closedFor = s]],
               clients, channels, sock.clientId, "close", s))
        /\ UNCHANGED storeVars

NextSockets ==
    \/ \E s \in Sockets, k \in ClientIds, path \in {"/api/accounts", "/api/ws"} :
          open(s, k, path)
    \/ \E s \in Sockets : pingIntervalRuns(s)
    \/ \E s \in Sockets : timeoutRuns(s)
    \/ \E s \in Sockets : keepaliveText(s)
    \/ \E s \in Sockets : pongFrame(s)
    \/ \E s \in Sockets : malformedMessage(s)
    \/ \E s \in Sockets, kind \in MessageKinds, ch \in Channels : parsedMessage(s, kind, ch)
    \/ \E s \in Sockets : socketCloses(s)

SpecSockets == Init /\ [][NextSockets]_vars

(* ------------------------- ancestor walks, lookup by lookup ------------ *)
\* the variables an ancestor walk leaves alone
walkFrame == <<accounts, nextAccountId, users, client, calls, memberUsers, link,
               sockets, clients, channels, fetch>>

\* any content of the Account Store: every row is absent or has a parentId
\* that is null or any account id, the id of an absent row and its own id
\* included
AnyAccounts ==
    [AccountIds ->
        {NoAccount} \cup
        {[type |-> IF par = NULL THEN "main" ELSE "branch", parentId |-> par,
          primaryAdminId |-> adm, name |-> "Ministry of Education"] :
            par \in {NULL} \cup AccountIds, adm \in {GhostUserId, 1}}]

\* the stores hold any accounts and one admin of any account and adminType
InitWalks ==
    /\ accounts \in AnyAccounts
    /\ nextAccountId = MaxAccounts + 1
    /\ \E a \in AccountIds, t \in {"limited", "unlimited"} :
          users = [u \in UserIds |->
                      IF u = 1 THEN [role |-> "admin", adminType |-> t,
                                     accountId |-> a, email |-> 1]
                      ELSE NoUser]
    /\ client = [c \in Conns |-> NoClientUser]
    /\ calls = [h \in Handlers |-> IdleCall]
    /\ memberUsers = [m \in MemberIds |-> NoUser]
    /\ link = [c \in Conns |-> NoLink]
    /\ InitSockets

\* checkPermission is called for user 1 and a target: the role check, the
\* findOne of the target and the shortcut of the unlimited main admin
callCheckPermission(targetAccountId) ==
    LET user == LoadUser(1)
        ended(res, n) == [op |-> "checkPermission", cur |-> NULL, lookups |-> n,
                          result |-> res]
    IN  /\ walk = NoWalk
        /\ walk' = IF user.role # "admin" THEN ended("false", 0)
                   ELSE IF ~AccountExists(targetAccountId) THEN ended("false", 1)
                   ELSE IF user.adminType = "unlimited" /\ user.accountType = "null"
                   THEN ended("false", 1)
                   ELSE IF user.adminType = "unlimited" /\ user.accountType = "main"
                   THEN ended("true", 1)
                   ELSE [op |-> "checkPermission", cur |-> targetAccountId,
                         lookups |-> 1, result |-> "running"]
        /\ UNCHANGED walkFrame

\* one iteration of the while loop of checkPermission
checkPermissionLoop ==
    LET user == LoadUser(1)
        cur == walk.cur
        parentId == accounts[cur].parentId
    IN  /\ walk.op = "checkPermission"
        /\ walk.result = "running"
        /\ walk.lookups < MaxLookups
        /\ walk' = IF cur = user.accountId \/ accounts[cur].primaryAdminId = user.id
                   THEN [walk EXCEPT !.result = "true"]
                   ELSE IF parentId = NULL THEN [walk EXCEPT !.result = "false"]
                   ELSE IF ~AccountExists(parentId)
                   THEN [walk EXCEPT !.lookups = @ + 1, !.cur = NULL,
                                     !.result = "false"]
                   ELSE [walk EXCEPT !.lookups = @ + 1, !.cur = parentId]
        /\ UNCHANGED walkFrame

\* the account a findOne of getMainAccount returned ends the walk when it
\* is null or has no parentId
mainWalkAt(found, n) ==
    [op |-> "getMainAccount", cur |-> found, lookups |-> n,
     result |-> IF found = NULL THEN "null"
                ELSE IF accounts[found].parentId = NULL THEN "found"
                ELSE "running"]

\* getMainAccount is called: its first findOne
callGetMainAccount(accountId) ==
    /\ walk = NoWalk
    /\ walk' = mainWalkAt(FindAccount(accountId), 1)
    /\ UNCHANGED walkFrame

\* one iteration of the while loop of getMainAccount
getMainAccountLoop ==
    /\ walk.op = "getMainAccount"
    /\ walk.result = "running"
    /\ walk.lookups < MaxLookups
    /\ walk' = mainWalkAt(FindAccount(accounts[walk.cur].parentId), walk.lookups + 1)
    /\ UNCHANGED walkFrame

\* the walk has returned to its caller
walkReturns ==
    /\ walk.op # "none"
    /\ walk.result # "running"
    /\ walk' = NoWalk
    /\ UNCHANGED walkFrame

NextWalks ==
    \/ \E targetAccountId \in RequestAccountIds : callCheckPermission(targetAccountId)
    \/ checkPermissionLoop
    \/ \E accountId \in RequestAccountIds : callGetMainAccount(accountId)
    \/ getMainAccountLoop
    \/ walkReturns

SpecWalks == InitWalks /\ [][NextWalks]_vars

(* ------------------------- fetch loops, request by request ------------- *)
\* the variables the fetch loops leave alone
fetchFrame == <<accounts, nextAccountId, users, client, calls, memberUsers, link,
                sockets, clients, channels, walk>>

\* what one schedule's attendance request returns: one record
ScheduleRecords == [memberId : {NULL} \cup MemberIds, phone : {NoPhone} \cup Phones]

\* the external system lists any admins, with or without phone, and any
\* schedules; getOrganizationUsers has validated the token
InitFetch ==
    /\ \E adminList \in SeqsUpTo({NoPhone, 1}, MaxAdmins),
          schedules \in SeqsUpTo(ScheduleRecords, MaxSchedules) :
          fetch = [NoFetch EXCEPT !.stage = "admins", !.adminList = adminList,
                                  !.schedules = schedules,
                                  !.asked = [s \in 1..Len(schedules) |-> 0]]
    /\ accounts = [a \in AccountIds |->
                      IF a = 1 THEN [type |-> "main", parentId |-> NULL,
                                     primaryAdminId |-> GhostUserId,
                                     name |-> "Ministry of Education"]
                      ELSE NoAccount]
    /\ nextAccountId = 2
    /\ users = [u \in UserIds |->
                   IF u = 1 THEN [role |-> "admin", adminType |-> "unlimited",
                                  accountId |-> 1, email |-> 1]
                   ELSE NoUser]
    /\ client = [c \in Conns |-> NoClientUser]
    /\ calls = [h \in Handlers |-> IdleCall]
    /\ memberUsers = [m \in MemberIds |-> NoUser]
    /\ link = [c \in Conns |-> NoLink]
    /\ sockets = [s \in Sockets |-> NoSocket]
    /\ clients = [k \in ClientIds |-> NoEntry]
    /\ channels = [ch \in Channels |-> {}]
    /\ walk = NoWalk

\* the records of list from position first to position last, as far as
\* the list goes
Slice(list, first, last) ==
    LET to == IF last < Len(list) THEN last ELSE Len(list)
    IN  IF first > to THEN <<>> ELSE SubSeq(list, first, to)

\* what the external system answers to page=p&limit=pageSize
adminsPage(list, p) == Slice(list, (p - 1) * pageSize + 1, p * pageSize)

\* filter(admin => admin.phone && admin.phone.trim() !== "")
withPhone(list) == SelectSeq(list, LAMBDA phone : phone # NoPhone)

\* the loop that counts the records of the page before it filters them
morePages_countsResponse(response, pageAdmins) == Len(response) >= pageSize

\* the loop goes on to the next page unless pageAdmins.length < pageSize
morePages(response, pageAdmins) == Len(pageAdmins) >= pageSize

\* one iteration of the while (true) loop that fetches the admins
fetchAdminPage ==
    LET response == adminsPage(fetch.adminList, fetch.page)
        pageAdmins == withPhone(response)
    IN  /\ fetch.stage = "admins"
        /\ fetch' = [fetch EXCEPT
                        !.requested = Append(@, fetch.page),
                        !.admins = @ \o pageAdmins,
                        !.page = IF morePages(response, pageAdmins) THEN @ + 1 ELSE @,
                        !.stage = IF morePages(response, pageAdmins) THEN @
                                  ELSE "schedules"]
        /\ UNCHANGED fetchFrame

\* the schedules request has returned: scheduleIds are the positions of
\* the schedules, and the for loop starts at i = 0
fetchSchedules ==
    /\ fetch.stage = "schedules"
    /\ fetch' = [fetch EXCEPT !.stage = IF fetch.schedules = <<>> THEN "dedupe"
                                        ELSE "attendance"]
    /\ UNCHANGED fetchFrame

\* scheduleIds.slice(i, i + batchSize)
batchAt(i) == {s \in 1..Len(fetch.schedules) : i < s /\ s <= i + batchSize}

\* a loop that requests every schedule at once
batchOf_unbatched(i) == 1..Len(fetch.schedules)

\* the schedules the iteration with index i requests
batchOf(i) == batchAt(i)

\* one iteration of the for loop begins: batch.map issues the requests of
\* the batch and Promise.all waits for them
issueBatch ==
    /\ fetch.stage = "attendance"
    /\ fetch.inFlight = {}
    /\ fetch' = [fetch EXCEPT
                    !.inFlight = batchOf(fetch.i),
                    !.asked = [s \in 1..Len(fetch.schedules) |->
                                  IF s \in batchOf(fetch.i) THEN @[s] + 1 ELSE @[s]]]
    /\ UNCHANGED fetchFrame

\* batchResponses.forEach: the records with a memberId of the schedules
\* from position s to the end of the batch, in the order of the batch
RECURSIVE pushed(_, _)
pushed(s, last) ==
    IF s > last \/ s > Len(fetch.schedules) THEN <<>>
    ELSE (IF fetch.schedules[s].memberId # NULL THEN <<fetch.schedules[s]>> ELSE <<>>)
         \o pushed(s + 1, last)

\* the response for schedule s arrives; with the last response of a batch
\* Promise.all resolves, the records are pushed and the loop goes on
responseArrives(s) ==
    /\ s \in fetch.inFlight
    /\ IF fetch.stage = "attendance" /\ fetch.inFlight = {s}
       THEN fetch' = [fetch EXCEPT
                         !.inFlight = {},
                         !.attendanceUsers = @ \o pushed(fetch.i + 1, fetch.i + batchSize),
                         !.i = @ + batchSize,
                         !.stage = IF fetch.i + batchSize < Len(fetch.schedules)
                                   THEN @ ELSE "dedupe"]
       ELSE fetch' = [fetch EXCEPT !.inFlight = @ \ {s}]
    /\ UNCHANGED fetchFrame

\* the request for schedule s fails: Promise.all rejects and the handler
\* leaves the loop
requestFails(s) ==
    /\ s \in fetch.inFlight
    /\ fetch' = [fetch EXCEPT !.inFlight = @ \ {s}, !.stage = "failed"]
    /\ UNCHANGED fetchFrame

\* the records go through phoneUserMap
dedupe ==
    /\ fetch.stage = "dedupe"
    /\ fetch' = [fetch EXCEPT !.phoneUserMap = phoneUserMap(fetch.attendanceUsers),
                              !.stage = "done"]
    /\ UNCHANGED fetchFrame

NextFetch ==
    \/ fetchAdminPage
    \/ fetchSchedules
    \/ issueBatch
    \/ \E s \in 1..MaxSchedules : responseArrives(s)
    \/ \E s \in 1..MaxSchedules : requestFails(s)
    \/ dedupe

SpecFetch == InitFetch /\ [][NextFetch]_vars

(* ------------------------- building a hierarchy ------------------------ *)
\* requests that build a hierarchy of three levels: admins with a new
\* email in any account, and accounts of any type under any account with
\* any user as primary admin
HierarchyUserRequests ==
    {[email |-> NextUserId, role |-> "admin", adminType |-> "limited", accountId |-> a] :
        a \in AccountIds}
HierarchyRequests ==
    {CreateRequest("acme", t, p, a, "limited", [adminIds |-> {}, userIds |-> {}]) :
        t \in CreateTypes, p \in AccountIds, a \in UserIds}

\* createAccount, called one after the other up to MaxAccounts accounts
createSubAccount(c, data) ==
    /\ client[c] # NoClientUser
    /\ createAccountAdmitted(client[c], data) => nextAccountId <= MaxAccounts
    /\ Finish(createAccountResult(client[c], data, NoFail))

NextHierarchy ==
    \/ \E c \in Conns, u \in UserIds : authenticate(c, u)
    \/ \E c \in Conns : cleanupClient(c)
    \/ \E c \in Conns, d \in HierarchyUserRequests : createUser(c, d, NoFail)
    \/ \E c \in Conns, d \in HierarchyRequests : createSubAccount(c, d)

SpecHierarchy == Init /\ [][NextHierarchy]_vars

(* ======================= properties ==================================== *)
\* the actors the operations receive: the cached users of the connections
Actors == {client[c] : c \in Conns} \ {NoClientUser}

\* an unlimited admin of a main-type account
IsUnlimitedMainAdmin(user) ==
    user.role = "admin" /\ user.adminType = "unlimited" /\ user.accountType = "main"

\* the accounts on the chain a, parent(a), parent(parent(a)), ...
RECURSIVE Chain(_)
Chain(a) ==
    IF ~AccountExists(a) THEN {}
    ELSE {a} \cup (IF accounts[a].parentId = NULL THEN {} ELSE Chain(accounts[a].parentId))

\* some account of the chain of t is the actor's account or has the actor
\* as primary admin
ChainMatch(user, t) ==
    \E a \in Chain(t) : a = user.accountId \/ accounts[a].primaryAdminId = user.id

C2_SuperAdmin ==
    \A user \in Actors :
        IsUnlimitedMainAdmin(user)
            => \A t \in RequestAccountIds : checkPermission(user, t, 0) <=> AccountExists(t)

\* an unlimited main admin holds permission on an account whose chain does
\* not reach it, and an account id of a deleted account is around
C2_Witness ==
    \E user \in Actors :
        /\ IsUnlimitedMainAdmin(user)
        /\ \E t \in ExistingAccounts : ~ChainMatch(user, t) /\ checkPermission(user, t, 0)
        /\ \E t \in AccountIds : t < nextAccountId /\ ~AccountExists(t)
                                 /\ ~checkPermission(user, t, 0)

\* C3: checkPermission is false for every actor whose role is not admin,
\* whatever the target, the stores and the store faults.
C3_NonAdminDenied ==
    \A user \in Actors :
        user.role # "admin"
            => \A t \in RequestAccountIds : \A pf \in 0..(MaxAccounts + 1) :
                  ~checkPermission(user, t, pf)

\* a user-role actor whose own account is the target is denied
C3_Witness ==
    \E user \in Actors :
        /\ user.role = "user"
        /\ AccountExists(user.accountId)
        /\ ChainMatch(user, user.accountId)
        /\ ~checkPermission(user, user.accountId, 0)

\* C4: checkPermission fails closed: when the target lookup or an ancestor
\* lookup throws, or the target is missing, it returns false, and the calling
\* operation sees a refusal (403), never the store error.
C4_FailsClosed ==
    \A user \in Actors : \A t \in RequestAccountIds :
        /\ ~AccountExists(t) => ~checkPermission(user, t, 0)
        /\ \A f \in PermFaults(user, t) :
              /\ ~checkPermission(user, t, f.n)
              /\ editAccountResult(user, [accountId |-> t, name |-> "",
                                          primaryAdminId |-> NULL], f).thrown = 403
              /\ deleteAccountResult(user, t, f).thrown = 403
              /\ assignUsersResult(user, [accountId |-> t, userIds |-> {}], f).thrown = 403

\* an admin holds permission through the parent of the target, and the
\* lookup of that parent is the one that throws
C4_Witness ==
    \E user \in Actors : \E t \in ExistingAccounts :
        /\ checkPermission(user, t, 0)
        /\ ~IsUnlimitedMainAdmin(user)
        /\ LookupFault("perm", 2) \in PermFaults(user, t)
        /\ ~checkPermission(user, t, 2)

\* C5: when checkPermission is false, editAccount, deleteAccount and
\* assignUsers leave the Account Store and the User Store as they were.
C5_DeniedWritesNothing ==
    \A user \in Actors : \A t \in RequestAccountIds :
        /\ \A d \in EditRequests : \A f \in EditFaults(user, t) :
              (d.accountId = t /\ ~checkPermission(user, t, PermFault(f)))
                  => LET r == editAccountResult(user, d, f)
                     IN  r.accounts = accounts /\ r.users = users
        /\ \A f \in DeleteFaults(user, t) :
              ~checkPermission(user, t, PermFault(f))
                  => LET r == deleteAccountResult(user, t, f)
                     IN  r.accounts = accounts /\ r.users = users
        /\ \A d \in AssignRequests : \A f \in AssignFaults(user, d) :
              (d.accountId = t /\ ~checkPermission(user, t, PermFault(f)))
                  => LET r == assignUsersResult(user, d, f)
                     IN  r.accounts = accounts /\ r.users = users

\* a limited admin names an existing account outside its ancestry that has
\* users, and lists a user of its own account
C5_Witness ==
    \E user \in Actors : \E t \in ExistingAccounts :
        /\ user.role = "admin"
        /\ user.adminType = "limited"
        /\ ~ChainMatch(user, t)
        /\ ~checkPermission(user, t, 0)
        /\ UsersOf(t) # {}
        /\ UsersOf(user.accountId) # {}
        /\ assignUsersResult(user, [accountId |-> t, userIds |-> UsersOf(user.accountId)],
                             NoFail).thrown = 403

RECURSIVE RootOf(_)
RootOf(a) ==
    IF ~AccountExists(a) THEN NULL
    ELSE IF accounts[a].parentId = NULL THEN a
    ELSE RootOf(accounts[a].parentId)

C8_CreateAtomicOnFailure ==
    \A user \in Actors : \A d \in CreateRequests : \A f \in CreateFaults(d) :
        LET r == createAccountResult(user, d, f)
        IN  r.thrown # 0 => (r.accounts = accounts /\ r.users = users)

\* the faults of the store calls createAccount makes outside its two loops
CreatePointFaults ==
    {NoFail} \cup PointFaults({"findParent", "findPrimary", "saveAccount", "savePrimary",
                               "findAdmins", "findUsers"})

\* the users of role in ids that are under the actor's account
Qualifying(user, ids, role) ==
    {u \in ids \cap ExistingUsers :
        users[u].role = role /\ users[u].accountId = user.accountId}

\* the call left both stores alone and raised
Refused(r) == r.thrown # 0 /\ r.accounts = accounts /\ r.users = users

\* C9: createAccount writes nothing when the actor is not an unlimited admin
\* of a main account, or parentId names no account, or primaryAdminId names
\* no admin of the actor's account: for every type and adminType asked under
\* every fault of a store call, and for every listing of admins and users
\* under the faults of the two lookups that precede the refusal.
C9_CreatePreconditions ==
    \A user \in Actors : \A p \in RequestAccountIds : \A a \in RequestUserIds :
        (\/ ~IsUnlimitedMainAdmin(user)
         \/ ~AccountExists(p)
         \/ ~(/\ UserExists(a)
              /\ users[a].role = "admin"
              /\ users[a].accountId = user.accountId))
            => \A n \in CreateNames :
                  /\ \A t \in CreateTypes : \A at \in {"limited", "unlimited"} :
                     \A f \in CreatePointFaults :
                        Refused(createAccountResult(
                            user, CreateRequest(n, t, p, a, at, NoListing), f))
                  /\ \A l \in Listings :
                     \A f \in {NoFail, Fault("findParent"), Fault("findPrimary")} :
                        Refused(createAccountResult(
                            user, CreateRequest(n, "regional", p, a, "unlimited", l), f))

\* an unlimited main admin names a missing parent with an admin of its own
\* account, and an existing parent with an admin of another account, in
\* requests that list users of its account
C9_Witness ==
    \E user \in Actors :
        /\ IsUnlimitedMainAdmin(user)
        /\ \E d \in CreateRequests :
              /\ ~AccountExists(d.parentId)
              /\ primaryAdminFound(user, d.primaryAdminId)
              /\ Qualifying(user, d.adminIds \cup d.userIds, "admin") # {}
              /\ createAccountResult(user, d, NoFail).thrown = 404
        /\ \E d \in CreateRequests :
              /\ AccountExists(d.parentId)
              /\ UserExists(d.primaryAdminId)
              /\ users[d.primaryAdminId].role = "admin"
              /\ users[d.primaryAdminId].accountId # user.accountId
              /\ createAccountResult(user, d, NoFail).thrown = 404

\* C10: after a successful createAccount by an unlimited main admin one new
\* account holds the requested type, parentId and primaryAdminId, the
\* primary admin is in it with the requested adminType, the listed admins of
\* the actor's account are in it with an unset adminType made limited, and
\* the listed users of the actor's account are in it.
C10_CreateEffect ==
    \A user \in Actors : \A d \in CreateRequests :
        LET r == createAccountResult(user, d, NoFail)
            id == nextAccountId
        IN  (IsUnlimitedMainAdmin(user) /\ id <= MaxAccounts /\ r.thrown = 0) =>
                /\ ~AccountExists(id)
                /\ r.accounts[id].type = d.type
                /\ r.accounts[id].parentId = d.parentId
                /\ r.accounts[id].primaryAdminId = d.primaryAdminId
                /\ \A a \in AccountIds \ {id} : r.accounts[a] = accounts[a]
                /\ r.users[d.primaryAdminId].accountId = id
                /\ r.users[d.primaryAdminId].adminType = d.adminType
                /\ \A u \in Qualifying(user, d.adminIds, "admin") \ {d.primaryAdminId} :
                      /\ r.users[u].accountId = id
                      /\ users[u].adminType = "none" => r.users[u].adminType = "limited"
                /\ \A u \in Qualifying(user, d.userIds, "user") :
                      r.users[u].accountId = id

\* an unlimited main admin creates an account naming a primary admin, a
\* second admin whose adminType is unset and a user, all of its own account
C10_Witness ==
    \E user \in Actors : \E d \in CreateRequests :
        /\ IsUnlimitedMainAdmin(user)
        /\ nextAccountId <= MaxAccounts
        /\ createAccountResult(user, d, NoFail).thrown = 0
        /\ \E u \in Qualifying(user, d.adminIds, "admin") \ {d.primaryAdminId} :
              users[u].adminType = "none"
        /\ Qualifying(user, d.userIds, "user") # {}

\* C11: a createAccount that passes its checks succeeds and leaves every
\* user other than the primary admin unchanged unless the user is listed in
\* adminIds as an admin of the actor's account or in userIds as a user of
\* the actor's account; this is stated of the source and of the compiled
\* build.
C11_CreateFrame ==
    \A user \in Actors : \A d \in CreateRequests :
        (nextAccountId <= MaxAccounts /\ createAccountAdmitted(user, d)) =>
            \A r \in {createAccountResult(user, d, NoFail),
                      createAccountDistResult(user, d, NoFail)} :
                /\ r.thrown = 0
                /\ \A u \in ExistingUsers \ ({d.primaryAdminId}
                                \cup Qualifying(user, d.adminIds, "admin")
                                \cup Qualifying(user, d.userIds, "user")) :
                      r.users[u] = users[u]

\* the walk from a through parentId reaches, within fuel steps, an account
\* that exists and has no parent
RECURSIVE EndsAtRoot(_, _)
EndsAtRoot(a, fuel) ==
    /\ AccountExists(a)
    /\ \/ accounts[a].parentId = NULL
       \/ fuel > 0 /\ EndsAtRoot(accounts[a].parentId, fuel - 1)

Succeeded(h) == calls[h].pc = "done" /\ calls[h].thrown = 0
\* handler h is between two awaits of createAccount
InFlight(h) == calls[h].pc \notin {"idle", "done"}
\* handler h has saved its account and has not yet saved all it moves
MidWrite(h) == calls[h].pc \in {"savePrimary", "findAdmins", "saveAdmin",
                                "findUsers", "saveUser"}
\* the next step of handler h is a read of a store
AboutToRead(h) == calls[h].pc \in {"findParent", "findPrimary", "findAdmins", "findUsers"}

\* C12: when two createAccount calls have both answered, no user is
\* reported by both, no user is the primaryAdminId of both new accounts, and
\* every reported user is in the account of the call that reported it.
C12_NoDoubleAssignment ==
    \A h \in Handlers : \A k \in Handlers \ {h} :
        (Succeeded(h) /\ Succeeded(k)) =>
            /\ calls[h].reported \cap calls[k].reported = {}
            /\ accounts[calls[h].id].primaryAdminId # accounts[calls[k].id].primaryAdminId
            /\ \A u \in calls[h].reported : users[u].accountId = calls[h].id

\* C13: no createAccount call reads the stores while another call has
\* saved its account and not yet every user it moves.
C13_NoIntermediateObserved ==
    \A h \in Handlers : \A k \in Handlers \ {h} :
        ~(MidWrite(h) /\ AboutToRead(k))

\* C14: two handlers of one connection are never in flight together.
C14_SerialPerConnection ==
    \A h \in Handlers : \A k \in Handlers \ {h} :
        (InFlight(h) /\ InFlight(k)) => calls[h].conn # calls[k].conn

(* ------------------------- reconciliation ------------------------------ *)
\* the main accounts of an Account Store
Mains(acc) == {a \in AccountIds : acc[a] # NoAccount /\ acc[a].type = "main"
                                                       /\ acc[a].parentId = NULL}
\* admin lists whose admins all belong to the one external organization
OrgAdmins == SeqsUpTo([accountId : {OrgKey}, email : {1, 2}], MaxRecords)
\* a migration data set whose requests all succeed
Migration(admins, list) == [fails |-> "none", admins |-> admins, users |-> list]
\* the result of a second initializeDatabase on the stores the first left
Rerun(r, ext, ignore) == initializeDatabaseOn(r.accounts, r.next, r.users, ext, ignore)

\* C16: a second reconciliation run on the same external data saves
\* nothing: getOrganizationUsers creates and changes no user-<memberId> row,
\* and initializeDatabase creates no account and no user.
C16_Idempotent ==
    /\ \A user \in Actors : \A records \in SeqsUpTo(AttendanceRecords, MaxRecords) :
          LET ext == [adminPhones |-> {}, records |-> records]
              first == getOrganizationUsersOn(memberUsers, user, ext, NoFail)
              second == getOrganizationUsersOn(first.members, user, ext, NoFail)
          IN  first.thrown = 0 => second.saves = 0 /\ second.members = first.members
    /\ \A admins \in SeqsUpTo(ExternalAdmins, MaxRecords) :
       \A list \in SeqsUpTo(ExternalUsers, 1) :
          LET first == initializeDatabaseResult(Migration(admins, list), NULL)
              second == Rerun(first, Migration(admins, list), NULL)
          IN  (second.next <= MaxAccounts + 1 /\ NextIdIn(second.users) <= MaxUsers + 1)
                 => second.accounts = first.accounts /\ second.users = first.users

C18_OneMainAccountPerOrganization ==
    \A admins \in OrgAdmins :
        LET first == initializeDatabaseResult(Migration(admins, <<>>), NULL)
            second == Rerun(first, Migration(admins, <<>>), NULL)
        IN  second.next <= MaxAccounts + 1 =>
               Cardinality(Mains(second.accounts) \ Mains(accounts)) <= 1

\* C19: when the schedules or the attendance request fails,
\* getOrganizationUsers answers with success and the admins, and
\* initializeDatabase goes on to migrate the admins.
C19_AttendanceFailureTolerated ==
    /\ \A user \in Actors : \A adminPhones \in SUBSET {NoPhone, 1} :
       \A f \in PointFaults({"schedules", "attendance"}) :
          LET r == getOrganizationUsersResult(user, [adminPhones |-> adminPhones,
                                                     records |-> <<>>], f)
          IN  (user.role = "admin" /\ user.accountType = "main") =>
                 /\ r.thrown = 0
                 /\ r.admins = adminPhones \ {NoPhone}
                 /\ r.users = {}
    /\ \A admins \in SeqsUpTo(ExternalAdmins, MaxRecords) :
          LET ext == [fails |-> "schedules", admins |-> admins, users |-> <<>>]
          IN  initializeDatabaseResult(ext, NULL) =
                 initializeDatabaseResult(Migration(admins, <<>>), NULL)

\* C20: when the token validation of getOrganizationUsers fails, or the
\* login of initializeDatabase fails or yields no token, the run raises
\* and leaves both stores as they were.
C20_NoCredentialNoWrite ==
    /\ \A user \in Actors : \A records \in SeqsUpTo(AttendanceRecords, MaxRecords) :
       \A f \in PointFaults({"verify", "invalid"}) :
          LET r == getOrganizationUsersResult(user, [adminPhones |-> {1}, records |-> records], f)
          IN  r.thrown # 0 /\ r.saves = 0 /\ r.members = memberUsers
    /\ \A admins \in SeqsUpTo(ExternalAdmins, MaxRecords) :
       \A list \in SeqsUpTo(ExternalUsers, 1), fails \in {"login", "noToken"} :
          LET r == initializeDatabaseResult([fails |-> fails, admins |-> admins,
                                             users |-> list], NULL)
          IN  /\ r.thrown # 0
              /\ r.accounts = accounts /\ r.users = users /\ r.next = nextAccountId

\* a run that would have saved a user and a run that would have created an
\* account each stop at the failed credential
C20_Witness ==
    /\ \E user \in Actors : \E records \in SeqsUpTo(AttendanceRecords, 1) :
          LET ext == [adminPhones |-> {1}, records |-> records]
          IN  /\ getOrganizationUsersResult(user, ext, NoFail).saves > 0
              /\ getOrganizationUsersResult(user, ext, Fault("verify")).thrown = 401
    /\ \E admins \in OrgAdmins :
          /\ initializeDatabaseResult(Migration(admins, <<>>), NULL).accounts # accounts
          /\ initializeDatabaseResult([fails |-> "noToken", admins |-> admins,
                                       users |-> <<>>], NULL).thrown # 0

(* ------------------------- users --------------------------------------- *)
\* C21: no two users have the same email.
C21_UniqueEmails ==
    /\ \A u \in ExistingUsers : \A v \in ExistingUsers \ {u} :
          users[u].email # users[v].email
    /\ \A m \in MemberIds : memberUsers[m] # NoUser =>
          /\ \A u \in ExistingUsers : users[u].email # memberUsers[m].email
          /\ \A n \in MemberIds \ {m} :
                memberUsers[n] # NoUser => memberUsers[n].email # memberUsers[m].email

\* two createUser calls for one unused email have both passed the email
\* lookup, one has inserted its row and the save of the other was rejected
C21_Witness ==
    \E h \in Handlers : \E g \in Handlers \ {h} :
        /\ Frame(h).pc = "done" /\ Frame(h).thrown = 0
        /\ Frame(g).pc = "done" /\ Frame(g).thrown = 500
        /\ Frame(g).data.email = Frame(h).data.email
        /\ AccountExists(Frame(g).data.accountId)
        /\ users[Frame(h).id].email = Frame(h).data.email

\* the actor createUser admits: an unlimited admin of a main-type account
CreateUserAdmitted(user) == user.accountType = "main" /\ user.adminType = "unlimited"

ResolvedMain(user) ==
    IF user.accountType = "main" THEN user.accountId ELSE RootOf(user.accountId)

\* the User Store after exactly the listed users found in the resolved main
\* account or in the actor's account were moved to the target
AssignedTo(user, d) ==
    [u \in UserIds |->
        IF /\ u \in d.userIds
           /\ users[u] # NoUser
           /\ users[u].accountId \in {ResolvedMain(user), user.accountId}
        THEN [users[u] EXCEPT !.accountId = d.accountId]
        ELSE users[u]]

\* C23: a permitted assignUsers that completes moves exactly the listed
\* users whose accountId is the resolved main account or the actor's
\* account, and changes no other user and no account; a permitted one that
\* is refused changes nothing.
C23_AssignFrame ==
    \A user \in Actors : \A d \in AssignRequests :
        /\ checkPermission(user, d.accountId, 0) =>
              LET r == assignUsersResult(user, d, NoFail)
              IN  /\ r.accounts = accounts
                  /\ r.users = IF r.thrown = 0 THEN AssignedTo(user, d) ELSE users
        /\ checkPermissionDist(user, d.accountId, 0) = "true" =>
              LET r == assignUsersDistResult(user, d, NoFail)
              IN  /\ r.accounts = accounts
                  /\ r.users = IF r.thrown = 0 THEN AssignedTo(user, d) ELSE users

\* one permitted call moves a listed user, and another lists a user of an
\* account that is neither the resolved main account, nor the actor's, nor
\* the target, and leaves it where it is
C23_Witness ==
    \E user \in Actors :
        /\ \E d \in AssignRequests :
              /\ checkPermission(user, d.accountId, 0)
              /\ assignUsersResult(user, d, NoFail).thrown = 0
              /\ \E u \in d.userIds :
                    /\ users[u] # NoUser
                    /\ users[u].accountId # d.accountId
                    /\ assignUsersResult(user, d, NoFail).users[u].accountId = d.accountId
        /\ \E d \in AssignRequests :
              /\ checkPermission(user, d.accountId, 0)
              /\ assignUsersResult(user, d, NoFail).thrown = 0
              /\ \E u \in d.userIds :
                    /\ users[u] # NoUser
                    /\ users[u].accountId \notin {ResolvedMain(user), user.accountId,
                                                  d.accountId}
                    /\ assignUsersResult(user, d, NoFail).users[u] = users[u]

PlainUsers(usr) ==
    \A u \in DOMAIN usr : (usr[u] # NoUser /\ usr[u].role = "user") => usr[u].adminType = "none"

\* C25: every stored user with role user has no adminType, in every state
\* the operations reach, and createUser leaves it so for every request, a
\* request with role user and an adminType included, and every store fault.
C25_AdminTypeOnAdminsOnly ==
    /\ PlainUsers(users)
    /\ PlainUsers(memberUsers)
    /\ \A user \in Actors : \A d \in CreateUserRequests : \A f \in CreateUserFaults :
          PlainUsers(createUserResult(user, d, f).users)

\* createUser stores a user for a request with role user and an adminType,
\* and createAccount moves a stored user with role user
C25_Witness ==
    \E user \in Actors :
        /\ \E d \in CreateUserRequests :
              /\ d.role = "user" /\ d.adminType = "limited"
              /\ NextUserId <= MaxUsers
              /\ createUserResult(user, d, NoFail).thrown = 0
              /\ createUserResult(user, d, NoFail).users[NextUserId].role = "user"
        /\ \E d \in CreateRequests : \E u \in ExistingUsers :
              /\ users[u].role = "user"
              /\ createAccountResult(user, d, NoFail).thrown = 0
              /\ createAccountResult(user, d, NoFail).users[u].accountId # users[u].accountId

(* ------------------------- envelopes ----------------------------------- *)
\* C26: the envelope sent for an error an operation raised has the status
\* of that error (403, 404, 409; 500 for a failure of the store) and
\* carries its message.
C26_EnvelopeKind ==
    \A user \in Actors :
        /\ \A d \in EditRequests : \A f \in ExploredEditFaults :
              LET r == editAccountResult(user, d, f)
              IN  r.thrown # 0 => /\ EnvelopeStatus("edit", r.thrown) = r.thrown
                                  /\ EnvelopeMessage("edit", r.thrown) = "raised"
        /\ \A d \in CreateUserRequests : \A f \in CreateUserFaults :
              LET r == createUserResult(user, d, f)
              IN  r.thrown # 0 => /\ EnvelopeStatus("createUser", r.thrown) = r.thrown
                                  /\ EnvelopeMessage("createUser", r.thrown) = "raised"

(* ------------------------- getAccounts --------------------------------- *)
\* the position of an account type in the order main, institutional,
\* regional, district, branch, department
Level(type) == CHOOSE i \in 1..Len(hierarchy) : hierarchy[i] = type

\* C30: getAccounts sends every account to an unlimited admin of a main
\* account; to any other actor it sends exactly the accounts of a type at
\* or below the level of the actor's account, the actor's own account and
\* the accounts whose primaryAdminId is the actor's id.
C30_VisibleAccounts ==
    \A user \in Actors :
        user.accountType # "null" =>
            /\ getAccountsResult(user).thrown = 0
            /\ getAccountsResult(user).found =
                  IF user.accountType = "main" /\ user.adminType = "unlimited"
                  THEN ExistingAccounts
                  ELSE {a \in ExistingAccounts :
                           \/ Level(accounts[a].type) >= Level(user.accountType)
                           \/ a = user.accountId
                           \/ accounts[a].primaryAdminId = user.id}

\* an actor that is no unlimited main admin is sent an account above the
\* level of its own account because it is the primary admin of it, and
\* its own account
C30_Witness ==
    \E user \in Actors : \E a \in ExistingAccounts :
        /\ ~(user.accountType = "main" /\ user.adminType = "unlimited")
        /\ user.accountType # "null"
        /\ AccountExists(user.accountId)
        /\ a # user.accountId
        /\ Level(accounts[a].type) < Level(user.accountType)
        /\ accounts[a].primaryAdminId = user.id
        /\ {a, user.accountId} \subseteq getAccountsResult(user).found

(* ------------------------- connections --------------------------------- *)
\* C27: a connection whose last message was answered with a 401 envelope
\* is closed, and one whose last message was answered with an error
\* envelope of another kind is open and registered.
C27_UnauthorizedCloses ==
    \A c \in Conns :
        /\ link[c].sent = 401 => link[c].state = "closed"
        /\ link[c].sent \in {400, 403, 404, 409, 500} => link[c].state = "open"

\* C28: when the last message of a connection made a controller operation
\* run, the token of that message was valid and the operation ran with the
\* user the token names.
C28_AuthenticatedPerMessage ==
    \A c \in Conns :
        link[c].ran \in {"getAccounts", "getOrganizationUsers", "assignUsers",
                         "createAccount"}
            => /\ TokenValid(link[c].token)
               /\ link[c].by = link[c].token.id

\* the controller operation an action of the accounts endpoint stands for
OperationOf(action) ==
    CASE action = "create" -> "createAccount"
      [] action = "edit" -> "editAccount"
      [] action = "delete" -> "deleteAccount"
      [] OTHER -> action

\* C29: the upgrade for the users endpoint is not refused, and a message
\* with a supported action on the accounts endpoint of a connection that
\* has a user makes the operation of that action run.
C29_SupportedActionsDispatched ==
    \A c \in Conns :
        /\ link[c].path = "/api/users" => link[c].state # "refused"
        /\ (/\ link[c].path = "/api/accounts"
            /\ link[c].state = "open"
            /\ client[c] # NoClientUser
            /\ link[c].action \in {"create", "edit", "delete", "assignUsers",
                                   "getAccounts", "getOrganizationUsers"})
              => link[c].ran = OperationOf(link[c].action)


(* ------------------------- heartbeat properties ------------------------ *)
\* socket s holds nothing of the server: its interval is not armed, no
\* entry of clients refers to it and it is subscribed to no channel
Released(s) ==
    /\ sockets[s].pingInterval # "armed"
    /\ \A k \in ClientIds : clients[k].ws # s
    /\ \A ch \in Channels : s \notin channels[ch]

\* C31: a connection on which nothing arrives during a bounded number of
\* heartbeat intervals is terminated: no open socket has been silent over
\* two runs of its interval; and a terminated connection has no registry
\* entry, no armed ping timer and no channel subscription.
C31_IdleTerminated ==
    \A s \in Sockets :
        /\ sockets[s].state = "open" => sockets[s].silent < 2
        /\ sockets[s].state = "closed" => Released(s)

\* C32: a connection that has not authenticated is terminated when the
\* window of CONNECTION_TIMEOUT expires, whatever it sent: no open socket
\* without authentication is older than the window.
C32_UnauthenticatedExpires ==
    \A s \in Sockets :
        sockets[s].state = "open" /\ ~sockets[s].authenticated
            => sockets[s].age <= WindowTicks

\* C38: the cleanup that an event of connection A runs closes the socket of
\* A only: every closed socket was closed by an event of its own, also
\* when two connections carry the same clientId.
C38_CleanupOwnConnection ==
    \A s \in Sockets :
        sockets[s].state = "closed" => sockets[s].closedFor = s

\* C39: the heartbeat does not terminate a responsive connection: a socket
\* its own interval closed had, at some run of the interval, left the
\* server's ping unanswered and sent no message since the run before.
C39_ResponsiveSurvives ==
    \A s \in Sockets :
        sockets[s].closedBy = "heartbeat" /\ sockets[s].closedFor = s
            => ~sockets[s].responsive


(* ------------------------- walk properties ----------------------------- *)
\* C33: the ancestor walks of checkPermission and getMainAccount terminate
\* for every content of the Account Store: a walk makes at most one lookup
\* per stored account and one more, also when the parentIds form a cycle;
\* getMainAccount returns an account without parentId or null, and a walk
\* that came to a parentId without row has denied or returned null.
C33_WalksTerminate ==
    /\ walk.lookups <= Cardinality(ExistingAccounts) + 1
    /\ walk.result = "found" => accounts[walk.cur].parentId = NULL
    /\ walk.op # "none" /\ walk.cur = NULL => walk.result \in {"true", "false", "null"}


(* ------------------------- fetch properties ---------------------------- *)
\* the first page on which the external system returns fewer records than
\* the page size
FirstShortPage(list) == Len(list) \div pageSize + 1

\* C34: the admin fetch requests the pages 1, 2, 3, ... and stops at the
\* first page that has fewer records than the page size; records without
\* phone are discarded and do not stop the pagination: when the loop is
\* over, the pages requested are those up to the first short page and the
\* admins are all the listed admins with a phone.
C34_PaginationStopsAtShortPage ==
    fetch.stage \notin {"idle", "admins"} =>
        /\ fetch.requested = [p \in 1..FirstShortPage(fetch.adminList) |-> p]
        /\ fetch.admins = withPhone(fetch.adminList)

\* the last record of list with the phone
LastWith(list, phone) ==
    list[CHOOSE n \in 1..Len(list) :
            /\ list[n].phone = phone
            /\ \A later \in (n + 1)..Len(list) : list[later].phone # phone]

C36_BatchesInOrder ==
    /\ Cardinality(fetch.inFlight) <= batchSize
    /\ fetch.inFlight \subseteq batchAt(fetch.i)
    /\ \A s \in 1..Len(fetch.schedules) : fetch.asked[s] <= 1
    /\ fetch.stage \in {"dedupe", "done"} =>
          \A s \in 1..Len(fetch.schedules) : fetch.asked[s] = 1

\* the second batch is in flight after the first has completed
C36_Witness ==
    /\ fetch.stage = "attendance"
    /\ fetch.i >= batchSize
    /\ fetch.inFlight # {}


(* ------------------------- primary admins ------------------------------ *)
\* C40: in every state that initialization, createAccount, editAccount,
\* deleteAccount and assignUsers reach, the primaryAdminId of every account
\* is null or the id of a stored user with role admin.
C40_PrimaryAdminsExist ==
    \A a \in ExistingAccounts :
        accounts[a].primaryAdminId # NULL =>
            /\ UserExists(accounts[a].primaryAdminId)
            /\ users[accounts[a].primaryAdminId].role = "admin"


(* ------------------------- permission and listing ---------------------- *)
\* C37: getAccounts sends the actor every account on which checkPermission
\* grants the actor access.
C37_GrantedAccountsListed ==
    \A user \in Actors : \A a \in ExistingAccounts :
        checkPermission(user, a, 0) =>
            /\ getAccountsResult(user).thrown = 0
            /\ a \in getAccountsResult(user).found

====
